---- MODULE Spec2Model ----
(***************************************************************************)
(* Model of the phase-driven code-generation core of smartbloks/aiwa26:    *)
(* PhaseImplementation (streamed file emission, realtime-fix fan-out),     *)
(* PhaseGeneration (reasoning-effort arbitration), CodeReview and the      *)
(* conversation-history compaction of UserConversationProcessor.           *)
(*                                                                         *)
(* Text is a sequence of one-character symbols.  The symbol "N" is the     *)
(* newline; the symbol "X" stands for a run of LongRun complete, plain     *)
(* lines of file text (no marker in it), so that files longer than the     *)
(* 50-line threshold of the realtime fixer fit in a short stream.          *)
(***************************************************************************)
EXTENDS Integers, Sequences, FiniteSets, TLC

\* ------------------------------------------------------------------ bounds

\* Longest streamed response, in symbols.
MaxResponseLen == 17

\* Number of lines the run symbol "X" stands for.
LongRun == 50

\* Longest list of user suggestions handed to PhaseGeneration.
MaxSuggestions == 2

\* Most runtime errors (and lint issues, and typecheck issues) of an IssueReport.
MaxIssues == 2

\* Most file entries of a CodeReviewOutput.
MaxReviewEntries == 2

\* Longest conversation history handed to compactifyContext.
MaxHistory == 200

\* Number of successive compactifyContext calls on one history.
MaxRuns == 2

\* Characters of the long word "L" of a message text.
LongWord == 399

\* ------------------------------------------------------- program constants

\* PhaseImplementation.ts:413  generatedFile.fileContents.split('\n').length > 50
RealtimeFixLineThreshold == 50

Paths == {"p", "q"}

FullContent == "full_content"
UnifiedDiff == "unified_diff"

\* -------------------------------------------------------------- sequences

RECURSIVE SumLines(_)
\* Lines of a content, a sequence of line units: the unit <<"X">> is a run of
\* LongRun lines, every other unit is one line.
SumLines(units) ==
    IF units = <<>> THEN 0
    ELSE (IF Head(units) = <<"X">> THEN LongRun ELSE 1) + SumLines(Tail(units))

\* fileContents.split('\n').length: the empty string splits into one piece.
SplitLength(contents) ==
    IF contents = <<>> THEN 1 ELSE SumLines(contents)

\* Index of the first "N" of s, 0 when there is none.
FirstNewline(s) ==
    IF \E i \in 1..Len(s) : s[i] = "N"
    THEN CHOOSE i \in 1..Len(s) : s[i] = "N" /\ \A j \in 1..(i-1) : s[j] # "N"
    ELSE 0

\* ----------------------------------------------------------------- state

VARIABLES
    \* PhaseImplementation.execute
    response,            \* the model's complete streamed response (input)
    pos,                 \* symbols of the response delivered so far
    shouldAutoFix,       \* inputs.shouldAutoFix
    realtimeEnabled,     \* IsRealtimeCodeFixerEnabled(options.inferenceContext)
    allFiles,            \* context.allFiles
    dupPolicy,           \* the codec's policy for a repeated start-of-file marker
    streamingState,      \* {accumulator, completedFiles, parsingState}
    fixedFilePromises,   \* the promises pushed so far
    callbacks,           \* the callback invocations, in order
    closeEvents,         \* paths of the codec's file-close events, in order
    splitInside,         \* a chunk boundary fell inside a line or marker
    pc,                  \* "idle" | "streaming" | "returned" | "failed"
    \* PhaseGeneration.execute
    pgConfigured,        \* AGENT_CONFIG.phaseGeneration.reasoning_effort
    pgUserContext,       \* inputs.userContext
    pgRuntimeErrors,     \* inputs.issues.runtimeErrors.length
    pgRequested,         \* the reasoning_effort handed to executeInference
    pgPc,                \* "idle" | "start" | "inferring" | "returned" | "threw"
    pgCalls,             \* executeInference calls made by this invocation
    pgInferenceError,    \* the error the inference call failed with, or "none"
    pgOutcome,           \* what execute settled with: a result or a thrown error
    \* CodeReview.execute
    crIssues,            \* lengths of the three issue lists of inputs.issues
    crRequested,         \* the reasoning_effort handed to executeInference
    crResult,            \* the CodeReviewOutput returned
    crPc,                \* "idle" | "start" | "inferring" | "returned" | "threw"
    \* UserConversationProcessor.compactifyContext
    cvMessages,          \* the conversation history, as last returned
    cvInput,             \* the history handed to the last compactifyContext call
    cvFirstKept,         \* the messages the first call kept verbatim
    cvRuns,              \* compactifyContext calls made so far
    \* UserConversationProcessor.execute
    ucPast,              \* inputs.pastMessages
    ucImages,            \* inputs.images.length
    ucMessages,          \* the local list messages (the history being built)
    ucSent,              \* the history messages handed to executeInference
    ucIds,               \* conversation ids generated so far by this call
    ucExtracted,         \* extractedUserResponse, the chunks streamed so far
    ucCallbacks,         \* the conversationResponseCallback invocations, in order
    ucTools,             \* the tool calls of the inference, with their state
    ucError,             \* the error a step of execute failed with, or "none"
    ucOutcome,           \* what execute settled with
    ucPc,                \* "idle" | "start" | "inferring" | "returned" | "threw"
    \* ScreenshotAnalysis.execute
    saScreenshot,        \* screenshotData.screenshot is present
    saReferenced,        \* the image URLs the codebase references
    saBroken,            \* those of them that fail validation
    saResult,            \* the analysis execute returned
    saPc,                \* "idle" | "start" | "inferring" | "returned" | "threw"
    \* validateImageUrls
    ivUrls,              \* the urls argument
    ivIndex,             \* the loop index i
    ivRequests,          \* every validateImageUrl call started, with its batch
    ivResults,           \* the Map results: the result stored under each URL
    ivPc,                \* "idle" | "loop" | "awaiting" | "done"
    \* autoFixImageUrls
    afFiles,             \* files: the input of the call
    afIndex,             \* how many files the loop has gone through
    afFixedFiles,        \* fixedFiles
    afAllFixes,          \* allFixes
    afFilesFixed,        \* filesFixed
    afUrlsReplaced,      \* totalUrlsReplaced
    afRequests,          \* HEAD requests issued by the call
    afRun,               \* 1: the first call, 2: the call on the files it returned
    afFirstReplaced,     \* urlsReplaced as the first call reported it
    afPc,                \* "idle", "loop", "returned"
    \* FastCodeFixerOperation.execute
    fcIssues,            \* inputs.issues
    fcAllFiles,          \* inputs.allFiles
    fcPrompt,            \* what userPromptFormatter was given
    fcResult,            \* the files execute returns
    fcPc,                \* "idle", "start", "prepass", "inferring", "returned", "threw"
    \* PhaseImplementation.execute calls running interleaved
    executions,          \* per call: its response, the symbols delivered, its own state
    \* CustomDomainController
    cdApps,              \* the apps table: the row of each app id
    cdRequests           \* the requests received, each with its locals and its position

phaseVars == <<response, pos, shouldAutoFix, realtimeEnabled, allFiles, dupPolicy,
               streamingState, fixedFilePromises, callbacks, closeEvents, splitInside,
               pc>>

pgVars == <<pgConfigured, pgUserContext, pgRuntimeErrors, pgRequested, pgPc,
            pgCalls, pgInferenceError, pgOutcome>>

crVars == <<crIssues, crRequested, crResult, crPc>>

cvVars == <<cvMessages, cvInput, cvFirstKept, cvRuns>>

ucVars == <<ucPast, ucImages, ucMessages, ucSent, ucIds, ucExtracted, ucCallbacks,
            ucTools, ucError, ucOutcome, ucPc>>

saVars == <<saScreenshot, saReferenced, saBroken, saResult, saPc>>

ivVars == <<ivUrls, ivIndex, ivRequests, ivResults, ivPc>>

afVars == <<afFiles, afIndex, afFixedFiles, afAllFixes, afFilesFixed, afUrlsReplaced,
            afRequests, afRun, afFirstReplaced, afPc>>

fcVars == <<fcIssues, fcAllFiles, fcPrompt, fcResult, fcPc>>

ixVars == <<executions>>

cdVars == <<cdApps, cdRequests>>

vars == <<phaseVars, pgVars, crVars, cvVars, ucVars, saVars, ivVars, afVars,
          fcVars, ixVars, cdVars>>

notPhaseVars == <<pgVars, crVars, cvVars, ucVars, saVars, ivVars, afVars,
                  fcVars, ixVars, cdVars>>

notPgVars == <<phaseVars, crVars, cvVars, ucVars, saVars, ivVars, afVars,
               fcVars, ixVars, cdVars>>

notCrVars == <<phaseVars, pgVars, cvVars, ucVars, saVars, ivVars, afVars,
               fcVars, ixVars, cdVars>>

notCvVars == <<phaseVars, pgVars, crVars, ucVars, saVars, ivVars, afVars,
               fcVars, ixVars, cdVars>>

notUcVars == <<phaseVars, pgVars, crVars, cvVars, saVars, ivVars, afVars,
               fcVars, ixVars, cdVars>>

notSaVars == <<phaseVars, pgVars, crVars, cvVars, ucVars, ivVars, afVars,
               fcVars, ixVars, cdVars>>

notIvVars == <<phaseVars, pgVars, crVars, cvVars, ucVars, saVars, afVars,
               fcVars, ixVars, cdVars>>

notAfVars == <<phaseVars, pgVars, crVars, cvVars, ucVars, saVars, ivVars,
               fcVars, ixVars, cdVars>>

notFcVars == <<phaseVars, pgVars, crVars, cvVars, ucVars, saVars, ivVars,
               afVars, ixVars, cdVars>>

notAfFcVars == <<phaseVars, pgVars, crVars, cvVars, ucVars, saVars, ivVars,
                 ixVars, cdVars>>

notIxVars == <<phaseVars, pgVars, crVars, cvVars, ucVars, saVars, ivVars,
               afVars, fcVars, cdVars>>

notCdVars == <<phaseVars, pgVars, crVars, cvVars, ucVars, saVars, ivVars,
               afVars, fcVars, ixVars>>

\* ------------------------------------------------- inputs of one execution

\* The phase plan (inputs.phase.files): path -> declared purpose.
PhaseFiles == [f \in {"p"} |-> "phase purpose"]

\* One file of context.allFiles.
KnownFile(path, contents) ==
    [filePath |-> path, fileContents |-> contents,
     filePurpose |-> "known purpose", format |-> FullContent]

\* The codebase snapshots an execution may run against: file p is known and
\* longer than the realtime-fix threshold, file q is new.
AllFilesChoices ==
    { << KnownFile("p", << <<"X">>, <<"b">> >>) >> }

\* context.allFiles.find(f => f.filePath === filePath)?.fileContents || ''
OriginalContents(filePath) ==
    IF \E i \in 1..Len(allFiles) : allFiles[i].filePath = filePath
    THEN allFiles[CHOOSE i \in 1..Len(allFiles) :
                      /\ allFiles[i].filePath = filePath
                      /\ \A j \in 1..(i-1) : allFiles[j].filePath # filePath].fileContents
    ELSE <<>>

\* FileProcessing.findFilePurpose: the purpose declared in the phase plan, else
\* the purpose of the already-known file, else none.
FindFilePurpose(filePath) ==
    IF filePath \in DOMAIN PhaseFiles THEN PhaseFiles[filePath]
    ELSE IF \E i \in 1..Len(allFiles) : allFiles[i].filePath = filePath
    THEN allFiles[CHOOSE i \in 1..Len(allFiles) : allFiles[i].filePath = filePath].filePurpose
    ELSE ""

\* Applying a unified diff to the original contents: the diffs of the model
\* are single hunks that add their lines after the last original line.
ApplyDiff(originalContents, diff) == originalContents \o diff

\* FileProcessing.processGeneratedFileContents: full replace or diff merge.
ProcessGeneratedFileContents(completedFile, originalContents) ==
    IF completedFile.format = UnifiedDiff
    THEN ApplyDiff(originalContents, completedFile.fileContents)
    ELSE completedFile.fileContents

\* ------------------------------------------- the streamed responses (input)

FileBlock(fmt, path, body) == <<"<", fmt, path, "N">> \o body \o <<"E", "N">>

ShortBody == <<"a", "N">>
ThresholdBody == <<"X">>
LongBody == <<"X", "a", "N">>
\* A fenced code block holding a line that looks like the close marker.
FencedBody == <<"#", "N", "E", "N", "#", "N">>

Items ==
    { FileBlock("F", "p", ShortBody),
      FileBlock("D", "p", ShortBody),
      FileBlock("F", "q", LongBody),
      FileBlock("F", "q", ThresholdBody),
      FileBlock("F", "q", FencedBody),
      <<"$", "c", "N">>,                      \* an install command line
      <<"<", "F", "q", "N", "a", "N">> }      \* an unterminated file block

RECURSIVE ResponsesFrom(_)
ResponsesFrom(shorter) ==
    LET longer == shorter \cup
                  { x[1] \o x[2] : x \in { y \in shorter \X Items :
                                            Len(y[1]) + Len(y[2]) <= MaxResponseLen } }
    IN  IF longer = shorter THEN shorter ELSE ResponsesFrom(longer)

\* Every concatenation of items that is at most MaxResponseLen symbols long.
Responses == ResponsesFrom({ i \in Items : Len(i) <= MaxResponseLen })

\* --------------------------------------------- PhaseImplementation: callbacks

\* An execution's mutable state, as the stream callbacks see it.
Exec(ss, promises, cbs, closes) ==
    [streamingState |-> ss, fixedFilePromises |-> promises,
     callbacks |-> cbs, closeEvents |-> closes]

InitialParsingState ==
    [inFile |-> FALSE, skipping |-> FALSE, filePath |-> "", format |-> FullContent,
     lines |-> <<>>, inFence |-> FALSE, extractedInstallCommands |-> <<>>,
     error |-> FALSE]

\* PhaseImplementation.ts:355-359
InitialStreamingState ==
    [accumulator |-> <<>>,
     completedFiles |-> [f \in {} |-> 0],
     parsingState |-> InitialParsingState]

\* PhaseImplementation.ts:368
ShouldEnableRealtimeCodeFixer == shouldAutoFix /\ realtimeEnabled

\* The threshold test off by one: a file of exactly 50 lines is fixed too.
StartsRealtimeFixAtThreshold(generatedFile) ==
    /\ ShouldEnableRealtimeCodeFixer
    /\ SplitLength(generatedFile.fileContents) >= RealtimeFixLineThreshold

\* PhaseImplementation.ts:413: the guard of the realtime fix.
StartsRealtimeFix(generatedFile) ==
    /\ ShouldEnableRealtimeCodeFixer
    /\ SplitLength(generatedFile.fileContents) > RealtimeFixLineThreshold

\* PhaseImplementation.ts:415-425: the promise pushed for a closed file.
NewPromise(generatedFile) ==
    IF StartsRealtimeFix(generatedFile)
    THEN [filePath |-> generatedFile.filePath, file |-> generatedFile,
          viaFixer |-> TRUE, state |-> "pending", value |-> "none"]
    ELSE [filePath |-> generatedFile.filePath, file |-> generatedFile,
          viaFixer |-> FALSE, state |-> "fulfilled", value |-> "generated"]

\* PhaseImplementation.ts:382-385
OnFileStart(E, filePath) ==
    [E EXCEPT !.callbacks =
        Append(@, [cb |-> "fileGenerating", filePath |-> filePath,
                   payload |-> [purpose |-> FindFilePurpose(filePath)]])]

\* PhaseImplementation.ts:386-388
OnFileChunk(E, filePath, fileChunk, format) ==
    [E EXCEPT !.callbacks =
        Append(@, [cb |-> "fileChunkGenerated", filePath |-> filePath,
                   payload |-> [chunk |-> fileChunk, format |-> format]])]

\* The callback is left to the realtime fixer when a fix was started.
FileClosedCallbackUnlessFixing(E, generatedFile) ==
    IF StartsRealtimeFix(generatedFile) THEN E
    ELSE [E EXCEPT
            !.callbacks =
                Append(@, [cb |-> "fileClosed", filePath |-> generatedFile.filePath,
                           payload |-> [file |-> generatedFile,
                                        pushed |-> Len(E.fixedFilePromises)]])]

\* PhaseImplementation.ts:428  inputs.fileClosedCallback(generatedFile, ...);
\* pushed is the number of promises fixedFilePromises holds when the callback
\* is invoked.
FileClosedCallback(E, generatedFile) ==
    [E EXCEPT
       !.callbacks =
           Append(@, [cb |-> "fileClosed", filePath |-> generatedFile.filePath,
                      payload |-> [file |-> generatedFile,
                                   pushed |-> Len(E.fixedFilePromises)]])]

\* PhaseImplementation.ts:389-429: the statements of the file-close callback,
\* in their order: the guard, the merge, the push, the fileClosedCallback.
OnFileClose(E, filePath) ==
    LET completedFiles == E.streamingState.completedFiles
    IN  IF filePath \notin DOMAIN completedFiles
        THEN E
        ELSE
          LET completedFile == completedFiles[filePath]
              merged == ProcessGeneratedFileContents(completedFile,
                                                     OriginalContents(filePath))
              generatedFile ==
                  [completedFile EXCEPT !.fileContents = merged,
                                        !.filePurpose = FindFilePurpose(filePath)]
              afterMerge ==
                  [E EXCEPT
                     !.streamingState.completedFiles[filePath].fileContents = merged]
              afterPush ==
                  [afterMerge EXCEPT
                     !.fixedFilePromises = Append(@, NewPromise(generatedFile))]
          IN  FileClosedCallback(afterPush, generatedFile)

\* ------------------------------------------------------------ SCOF codec

IsOpenMarker(unit) ==
    /\ Len(unit) = 3
    /\ unit[1] = "<"
    /\ unit[2] \in {"F", "D"}
    /\ unit[3] \in Paths

IsInstallCommand(unit) == Len(unit) = 2 /\ unit[1] = "$"

IsCloseMarker(unit) == unit = <<"E">>

IsFence(unit) == unit = <<"#">>

DeclaredFormat(unit) == IF unit[2] = "D" THEN UnifiedDiff ELSE FullContent

\* Length of the first complete unit of the accumulator (a run symbol, or a
\* line with its newline), 0 when the accumulator holds no complete unit.
NextUnitLen(acc) ==
    IF acc = <<>> THEN 0
    ELSE IF Head(acc) = "X" THEN 1
    ELSE FirstNewline(acc)

\* A complete unit outside a file block.
OutsideFile(E, unit) ==
    LET ps == E.streamingState.parsingState
    IN  IF IsOpenMarker(unit)
        THEN IF unit[3] \in DOMAIN E.streamingState.completedFiles
                /\ dupPolicy = "error"
             THEN [E EXCEPT !.streamingState.parsingState =
                       [ps EXCEPT !.inFile = TRUE, !.skipping = TRUE,
                                  !.inFence = FALSE, !.error = TRUE]]
             ELSE OnFileStart(
                    [E EXCEPT !.streamingState.parsingState =
                       [ps EXCEPT !.inFile = TRUE, !.skipping = FALSE,
                                  !.filePath = unit[3],
                                  !.format = DeclaredFormat(unit),
                                  !.lines = <<>>, !.inFence = FALSE]],
                    unit[3])
        ELSE IF IsInstallCommand(unit)
        THEN [E EXCEPT !.streamingState.parsingState.extractedInstallCommands =
                           Append(@, unit[2])]
        ELSE E

\* The close marker of the open file block: completedFiles[path] is finalized,
\* then the file-close callback runs.
CloseFile(E) ==
    LET ps == E.streamingState.parsingState
        done == [filePath |-> ps.filePath, fileContents |-> ps.lines,
                 filePurpose |-> "", format |-> ps.format]
        cf == E.streamingState.completedFiles
        closed ==
            [E EXCEPT
               !.streamingState.completedFiles =
                   [f \in DOMAIN cf \cup {ps.filePath} |->
                       IF f = ps.filePath THEN done ELSE cf[f]],
               !.streamingState.parsingState =
                   [ps EXCEPT !.inFile = FALSE, !.lines = <<>>],
               !.closeEvents = Append(@, ps.filePath)]
    IN  OnFileClose(closed, ps.filePath)

\* A complete unit inside a file block.
InsideFile(E, unit) ==
    LET ps == E.streamingState.parsingState
    IN  IF IsCloseMarker(unit) /\ ~ps.inFence
        THEN IF ps.skipping
             THEN [E EXCEPT !.streamingState.parsingState =
                       [ps EXCEPT !.inFile = FALSE, !.skipping = FALSE]]
             ELSE CloseFile(E)
        ELSE
          LET fenced == IF IsFence(unit) THEN ~ps.inFence ELSE ps.inFence
          IN  IF ps.skipping
              THEN [E EXCEPT !.streamingState.parsingState.inFence = fenced]
              ELSE OnFileChunk(
                     [E EXCEPT !.streamingState.parsingState =
                        [ps EXCEPT !.inFence = fenced,
                                   !.lines = Append(@, unit)]],
                     ps.filePath, unit, ps.format)

ProcessUnit(E, unit) ==
    IF E.streamingState.parsingState.inFile
    THEN InsideFile(E, unit)
    ELSE OutsideFile(E, unit)

RECURSIVE Consume(_)
\* Every complete unit of the accumulator is consumed, in order; an incomplete
\* last line stays in the accumulator for the next chunk.
Consume(E) ==
    LET acc == E.streamingState.accumulator
        n == NextUnitLen(acc)
        unit == IF Head(acc) = "X" THEN <<"X">> ELSE SubSeq(acc, 1, n - 1)
    IN  IF n = 0 THEN E
        ELSE Consume(ProcessUnit(
                 [E EXCEPT !.streamingState.accumulator = SubSeq(acc, n + 1, Len(acc))],
                 unit))

\* SCOFFormat.parseStreamingChunks(chunk, state, onFileStart, onFileChunk, onFileClose)
ParseStreamingChunks(chunk, E) ==
    Consume([E EXCEPT !.streamingState.accumulator = @ \o chunk])

\* ------------------------------------------------- components not running

NoUserContext == [present |-> FALSE, hasSuggestions |-> FALSE, suggestions |-> <<>>]

NoReview == [filesToFix |-> <<>>]

\* An execute call that has not settled.
NoOutcome == [kind |-> "pending", value |-> "none", error |-> "none"]

IdlePhase ==
    /\ response = <<>>
    /\ pos = 0
    /\ shouldAutoFix = FALSE
    /\ realtimeEnabled = FALSE
    /\ allFiles = <<>>
    /\ dupPolicy = "overwrite"
    /\ streamingState = InitialStreamingState
    /\ fixedFilePromises = <<>>
    /\ callbacks = <<>>
    /\ closeEvents = <<>>
    /\ splitInside = FALSE
    /\ pc = "idle"

IdlePhaseGeneration ==
    /\ pgConfigured = "undefined"
    /\ pgUserContext = NoUserContext
    /\ pgRuntimeErrors = 0
    /\ pgRequested = "undefined"
    /\ pgPc = "idle"
    /\ pgCalls = 0
    /\ pgInferenceError = "none"
    /\ pgOutcome = NoOutcome

IdleCodeReview ==
    /\ crIssues = [runtimeErrors |-> 0, lint |-> 0, typecheck |-> 0]
    /\ crRequested = "undefined"
    /\ crResult = NoReview
    /\ crPc = "idle"

IdleCompaction ==
    /\ cvMessages = <<>>
    /\ cvInput = <<>>
    /\ cvFirstKept = <<>>
    /\ cvRuns = 0

\* A UserConversationProcessor.execute call that has not settled.
NoConversationOutcome ==
    [kind |-> "pending", error |-> "none", userResponse |-> <<>>, messages |-> <<>>]

IdleConversation ==
    /\ ucPast = <<>>
    /\ ucImages = 0
    /\ ucMessages = <<>>
    /\ ucSent = <<>>
    /\ ucIds = 0
    /\ ucExtracted = <<>>
    /\ ucCallbacks = <<>>
    /\ ucTools = <<>>
    /\ ucError = "none"
    /\ ucOutcome = NoConversationOutcome
    /\ ucPc = "idle"

\* No ScreenshotAnalysis result.
NoAnalysis == [hasIssues |-> FALSE, issues |-> {}]

IdleScreenshotAnalysis ==
    /\ saScreenshot = FALSE
    /\ saReferenced = {}
    /\ saBroken = {}
    /\ saResult = NoAnalysis
    /\ saPc = "idle"

IdleValidation ==
    /\ ivUrls = <<>>
    /\ ivIndex = 0
    /\ ivRequests = <<>>
    /\ ivResults = <<>>
    /\ ivPc = "idle"

IdleAutoFix ==
    /\ afFiles = <<>>
    /\ afIndex = 0
    /\ afFixedFiles = <<>>
    /\ afAllFixes = <<>>
    /\ afFilesFixed = 0
    /\ afUrlsReplaced = 0
    /\ afRequests = 0
    /\ afRun = 0
    /\ afFirstReplaced = 0
    /\ afPc = "idle"

\* No prompt has been built.
NoFixerPrompt == [generalScan |-> FALSE, issues |-> <<>>, codebase |-> <<>>]

IdleFastCodeFixer ==
    /\ fcIssues = <<>>
    /\ fcAllFiles = <<>>
    /\ fcPrompt = NoFixerPrompt
    /\ fcResult = <<>>
    /\ fcPc = "idle"

IdleInterleaved == executions = <<>>

IdleCustomDomain ==
    /\ cdApps = <<>>
    /\ cdRequests = <<>>

\* ------------------------------------------- PhaseImplementation: actions

CurrentExec == Exec(streamingState, fixedFilePromises, callbacks, closeEvents)

\* A streaming state whose accumulator does not survive from chunk to chunk.
ChunkTargetFresh(E) == [E EXCEPT !.streamingState.accumulator = <<>>]

\* PhaseImplementation.ts:376-381: every chunk is parsed into the one
\* streamingState created before the inference call.
ChunkTarget(E) == E

\* The stream blocks on a pending fix (the callback awaits the fixer inline).
StreamAwaitsFix == \E i \in 1..Len(fixedFilePromises) : fixedFilePromises[i].state = "pending"

\* PhaseImplementation.ts:413-429: the file-close callback is synchronous; it
\* pushes the fix promise and goes on, it does not await it.
StreamBlockedByFix == FALSE

\* The merged contents are written into the files of the context.
AllFilesMergedInPlace(files, E) ==
    LET completedFiles == E.streamingState.completedFiles
    IN  [i \in DOMAIN files |->
            IF files[i].filePath \in DOMAIN completedFiles
            THEN [files[i] EXCEPT
                    !.fileContents = completedFiles[files[i].filePath].fileContents]
            ELSE files[i]]

\* PhaseImplementation.ts:384, 397, 409: the callbacks read context.allFiles
\* with reduce and find only, and the merge is assigned to the fileContents of
\* the completedFile taken from streamingState.completedFiles (392, 398).
AllFilesAfterChunk(files, E) == files

InitPhase ==
    /\ response \in Responses
    /\ pos = 0
    /\ shouldAutoFix \in BOOLEAN
    /\ realtimeEnabled \in BOOLEAN
    /\ allFiles \in AllFilesChoices
    /\ dupPolicy \in {"overwrite", "error"}
    /\ streamingState = InitialStreamingState
    /\ fixedFilePromises = <<>>
    /\ callbacks = <<>>
    /\ closeEvents = <<>>
    /\ splitInside = FALSE
    /\ pc = "streaming"

\* stream.onChunk: the next k symbols of the response arrive as one chunk.
OnChunk(k) ==
    /\ pc = "streaming"
    /\ ~StreamBlockedByFix
    /\ pos + k <= Len(response)
    /\ LET E == ParseStreamingChunks(SubSeq(response, pos + 1, pos + k),
                                     ChunkTarget(CurrentExec))
       IN  /\ streamingState' = E.streamingState
           /\ fixedFilePromises' = E.fixedFilePromises
           /\ callbacks' = E.callbacks
           /\ closeEvents' = E.closeEvents
           /\ splitInside' = (\/ splitInside
                              \/ /\ pos + k < Len(response)
                                 /\ E.streamingState.accumulator # <<>>)
           /\ allFiles' = AllFilesAfterChunk(allFiles, E)
    /\ pos' = pos + k
    /\ UNCHANGED <<response, shouldAutoFix, realtimeEnabled, dupPolicy, pc>>
    /\ UNCHANGED notPhaseVars

StreamStep == \E k \in 1..(Len(response) - pos) : OnChunk(k)

\* PhaseImplementation.ts:433-443: the inference call resolves after the last
\* chunk and execute returns {fixedFilePromises, deploymentNeeded, commands}.
ExecuteReturn ==
    /\ pc = "streaming"
    /\ ~StreamBlockedByFix
    /\ pos = Len(response)
    /\ pc' = "returned"
    /\ UNCHANGED <<response, pos, shouldAutoFix, realtimeEnabled, allFiles, dupPolicy,
                   streamingState, fixedFilePromises, callbacks, closeEvents, splitInside>>
    /\ UNCHANGED notPhaseVars

\* PhaseImplementation.ts:370: the awaited inference call rejects; execute
\* rejects with it.
InferenceFails ==
    /\ pc = "streaming"
    /\ pc' = "failed"
    /\ UNCHANGED <<response, pos, shouldAutoFix, realtimeEnabled, allFiles, dupPolicy,
                   streamingState, fixedFilePromises, callbacks, closeEvents, splitInside>>
    /\ UNCHANGED notPhaseVars

\* The list is kept in completion order: a promise that fulfils moves to the
\* end of it.
FulfilPromiseInCompletionOrder(promises, i) ==
    SubSeq(promises, 1, i - 1) \o SubSeq(promises, i + 1, Len(promises))
    \o << [promises[i] EXCEPT !.state = "fulfilled", !.value = "fixed"] >>

\* The promise of realtimeCodeFixer.run for the i-th closed file fulfils.
FulfilPromise(promises, i) ==
    [promises EXCEPT ![i].state = "fulfilled", ![i].value = "fixed"]

\* A fail-fast join: one rejection rejects every fix still pending.
RejectAllPending(promises, i) ==
    [j \in 1..Len(promises) |->
        IF promises[j].state = "pending"
        THEN [promises[j] EXCEPT !.state = "rejected", !.value = "error"]
        ELSE promises[j]]

\* The promise of realtimeCodeFixer.run for the i-th closed file rejects.
RejectPromise(promises, i) ==
    [promises EXCEPT ![i].state = "rejected", ![i].value = "error"]

FixResolves(i) ==
    /\ fixedFilePromises[i].state = "pending"
    /\ fixedFilePromises' = FulfilPromise(fixedFilePromises, i)
    /\ UNCHANGED <<response, pos, shouldAutoFix, realtimeEnabled, allFiles, dupPolicy,
                   streamingState, callbacks, closeEvents, splitInside, pc>>
    /\ UNCHANGED notPhaseVars

FixRejects(i) ==
    /\ fixedFilePromises[i].state = "pending"
    /\ fixedFilePromises' = RejectPromise(fixedFilePromises, i)
    /\ UNCHANGED <<response, pos, shouldAutoFix, realtimeEnabled, allFiles, dupPolicy,
                   streamingState, callbacks, closeEvents, splitInside, pc>>
    /\ UNCHANGED notPhaseVars

FixSettles ==
    \E i \in 1..Len(fixedFilePromises) : FixResolves(i) \/ FixRejects(i)

NextPhase ==
    \/ StreamStep
    \/ ExecuteReturn
    \/ InferenceFails
    \/ FixSettles

Init == InitPhase /\ IdlePhaseGeneration /\ IdleCodeReview /\ IdleCompaction /\ IdleConversation /\ IdleScreenshotAnalysis /\ IdleValidation /\ IdleAutoFix /\ IdleFastCodeFixer /\ IdleInterleaved /\ IdleCustomDomain

Spec == Init /\ [][NextPhase]_vars

\* ------------------------------------------------ PhaseImplementation: claims

Promises == 1..Len(fixedFilePromises)

ClosedCallbacks == SelectSeq(callbacks, LAMBDA c : c.cb = "fileClosed")

PendingFix(i) == fixedFilePromises[i].state = "pending"

\* C1 as stated: every file-close event appends exactly one promise, so the
\* promises returned are as many as the files closed; the realtime fixer runs for
\* a closed file exactly when shouldAutoFix is true and the merged file has more
\* than 50 lines; every other promise is already resolved to the generated file.
C1_FixerIffAutoFixAndLong ==
    /\ Len(fixedFilePromises) = Len(closeEvents)
    /\ \A i \in Promises :
          LET pr == fixedFilePromises[i]
          IN  /\ pr.viaFixer <=>
                    (shouldAutoFix /\ SplitLength(pr.file.fileContents) > 50)
              /\ ~pr.viaFixer => (pr.state = "fulfilled" /\ pr.value = "generated")

\* C1 amended: as C1, but the realtime fixer runs for a closed file exactly
\* when shouldAutoFix is true, the realtime fixer is enabled for the inference
\* context, and the merged file has more than 50 lines.
C1_FixerIffEnabledAndLong ==
    /\ Len(fixedFilePromises) = Len(closeEvents)
    /\ \A i \in Promises :
          LET pr == fixedFilePromises[i]
          IN  /\ pr.filePath = closeEvents[i]
              /\ pr.viaFixer <=>
                    (/\ shouldAutoFix
                     /\ realtimeEnabled
                     /\ SplitLength(pr.file.fileContents) > 50)
              /\ ~pr.viaFixer => (pr.state = "fulfilled" /\ pr.value = "generated")

\* Scenario B: two files closed, auto-fix on, the fixer started for the long
\* file only, and execute has returned two promises.
C1_Witness ==
    /\ pc = "returned"
    /\ shouldAutoFix /\ realtimeEnabled
    /\ Len(fixedFilePromises) = 2
    /\ Len(closeEvents) = 2
    /\ fixedFilePromises[1].viaFixer
    /\ SplitLength(fixedFilePromises[1].file.fileContents) > 50
    /\ ~fixedFilePromises[2].viaFixer
    /\ SplitLength(fixedFilePromises[2].file.fileContents) <= 50

\* C2: a pending realtime fix never holds up the stream: while any fix is
\* pending the next chunk can be processed, execute can return once the stream
\* has ended, and the fileClosedCallback of every file whose fix was started has
\* already been invoked.
C2_NeverWaitsForFix ==
    (\E i \in Promises : PendingFix(i)) =>
        /\ (pc = "streaming" /\ pos < Len(response)) => ENABLED StreamStep
        /\ (pc = "streaming" /\ pos = Len(response)) => ENABLED ExecuteReturn
        /\ Len(ClosedCallbacks) = Len(fixedFilePromises)

\* Two fixes were in flight together, execute returned, and the second file's
\* fix completed while the first is still pending.
C2_Witness ==
    /\ pc = "returned"
    /\ Len(fixedFilePromises) = 2
    /\ fixedFilePromises[1].viaFixer /\ PendingFix(1)
    /\ fixedFilePromises[2].viaFixer /\ fixedFilePromises[2].value = "fixed"
    /\ Len(ClosedCallbacks) = 2

RejectedNow(i) ==
    /\ i \in Promises
    /\ fixedFilePromises[i].state = "pending"
    /\ fixedFilePromises'[i].state = "rejected"

RejectionIsIsolated ==
    \A i \in Promises :
        RejectedNow(i) =>
            /\ pc' = pc
            /\ Len(fixedFilePromises') = Len(fixedFilePromises)
            /\ \A j \in Promises \ {i} : fixedFilePromises'[j] = fixedFilePromises[j]

\* C3: the rejection of one file's fix changes nothing but that promise: the
\* execution's control state and every sibling promise are left as they were, a
\* rejected fix does not keep execute from returning, and a pending sibling can
\* still fulfil with its own result.
C3_FixFailureIsIsolated ==
    /\ [][RejectionIsIsolated]_vars
    /\ []((\E i \in Promises : fixedFilePromises[i].state = "rejected") =>
             /\ (pc = "streaming" /\ pos = Len(response)) => ENABLED ExecuteReturn
             /\ \A j \in Promises : PendingFix(j) => ENABLED FixResolves(j))

\* One fix rejected, a sibling's fix fulfilled, and execute returned normally.
C3_Witness ==
    /\ pc = "returned"
    /\ Len(fixedFilePromises) = 2
    /\ fixedFilePromises[1].state = "rejected"
    /\ fixedFilePromises[2].value = "fixed"

\* The whole response delivered as a single chunk to a fresh state.
OneShot ==
    ParseStreamingChunks(response,
        ChunkTarget(Exec(InitialStreamingState, <<>>, <<>>, <<>>))).streamingState

C5_UniqueFilePaths ==
    /\ \A i, j \in Promises :
          i # j => fixedFilePromises[i].filePath # fixedFilePromises[j].filePath
    /\ \A i, j \in 1..Len(ClosedCallbacks) :
          i # j => ClosedCallbacks[i].filePath # ClosedCallbacks[j].filePath

\* No step moves, removes or replaces a promise of the list.
PromisesStayInPlace ==
    /\ Len(fixedFilePromises') >= Len(fixedFilePromises)
    /\ \A i \in Promises :
          /\ fixedFilePromises'[i].filePath = fixedFilePromises[i].filePath
          /\ fixedFilePromises'[i].file = fixedFilePromises[i].file

\* C24: fixedFilePromises lists the files in the order of their close events
\* in the stream: the i-th promise is the promise of the i-th closed file, and
\* no completion of a realtime fix, in whatever order, changes that.
C24_PromisesInCloseOrder ==
    /\ [](\A i \in Promises :
             /\ i <= Len(closeEvents)
             /\ fixedFilePromises[i].filePath = closeEvents[i]
             /\ fixedFilePromises[i].file.filePath = closeEvents[i])
    /\ [][PromisesStayInPlace]_vars

\* Two different files were closed and both fixes started; the fix of the
\* file closed second completed while the first is still pending.
C24_Witness ==
    /\ Len(fixedFilePromises) = 2
    /\ closeEvents[1] # closeEvents[2]
    /\ fixedFilePromises[1].filePath = closeEvents[1]
    /\ fixedFilePromises[2].filePath = closeEvents[2]
    /\ PendingFix(1)
    /\ fixedFilePromises[2].viaFixer
    /\ fixedFilePromises[2].state = "fulfilled"

\* ------------------------------- PhaseImplementation: the file-close callback

\* Close events the codec raises for a path it holds no completed file for.
MaxStrayCloses == 1

StrayCloses == Len(closeEvents) - Len(fixedFilePromises)

\* PhaseImplementation.ts:389-395: the codec calls the file-close callback
\* with a path that streamingState.completedFiles does not hold.
StrayClose ==
    /\ pc = "streaming"
    /\ StrayCloses < MaxStrayCloses
    /\ \E filePath \in Paths \ DOMAIN streamingState.completedFiles :
          LET E == OnFileClose([CurrentExec EXCEPT !.closeEvents = Append(@, filePath)],
                               filePath)
          IN  /\ streamingState' = E.streamingState
              /\ fixedFilePromises' = E.fixedFilePromises
              /\ callbacks' = E.callbacks
              /\ closeEvents' = E.closeEvents
    /\ UNCHANGED <<response, pos, shouldAutoFix, realtimeEnabled, allFiles, dupPolicy,
                   splitInside, pc>>
    /\ UNCHANGED notPhaseVars

NextFileClose ==
    \/ NextPhase
    \/ StrayClose

SpecFileClose == Init /\ [][NextFileClose]_vars

\* The contents are the pre-phase contents with the diff applied.
MergedWithOriginal(file) ==
    file.format = UnifiedDiff =>
        LET original == OriginalContents(file.filePath)
        IN  /\ Len(file.fileContents) >= Len(original)
            /\ SubSeq(file.fileContents, 1, Len(original)) = original

\* The step is a close event for a path missing from completedFiles.
ClosesMissingPath ==
    /\ Len(closeEvents') = Len(closeEvents) + 1
    /\ closeEvents'[Len(closeEvents')] \notin DOMAIN streamingState'.completedFiles

\* C27: for each closed file the promise is appended before fileClosedCallback
\* is invoked, and the callback is invoked exactly once per promise, with the
\* merged file the promise was made for, also when a realtime fix was started;
\* a close event for a path missing from completedFiles appends no promise and
\* invokes no callback.
C27_CloseStepsInOrder ==
    /\ [](/\ Len(ClosedCallbacks) = Len(fixedFilePromises)
          /\ \A i \in Promises :
                /\ ClosedCallbacks[i].payload.pushed = i
                /\ ClosedCallbacks[i].filePath = fixedFilePromises[i].filePath
                /\ ClosedCallbacks[i].payload.file = fixedFilePromises[i].file
                /\ MergedWithOriginal(ClosedCallbacks[i].payload.file))
    /\ [][ClosesMissingPath =>
             /\ fixedFilePromises' = fixedFilePromises
             /\ callbacks' = callbacks
             /\ streamingState' = streamingState]_vars

\* A close event for a missing path was raised, and the diff of the known
\* file was merged, its fix started and its callback invoked.
C27_Witness ==
    /\ StrayCloses = 1
    /\ \E i \in Promises :
          /\ fixedFilePromises[i].viaFixer
          /\ fixedFilePromises[i].file.format = UnifiedDiff
          /\ Len(fixedFilePromises[i].file.fileContents)
                 > Len(OriginalContents(fixedFilePromises[i].filePath))
          /\ ClosedCallbacks[i].payload.file = fixedFilePromises[i].file

\* --------------------------- PhaseImplementation: execute calls interleaved

\* execute calls running at the same time.
MaxCalls == 2

\* The responses streamed to the interleaved calls: a diff of the known file,
\* a new file, an install command followed by an unterminated file block.
InterleavedResponses ==
    { FileBlock("D", "p", ShortBody),
      FileBlock("F", "q", ThresholdBody),
      <<"$", "c", "N", "<", "F", "q", "N", "a", "N">> }

\* PhaseImplementation.ts:355-361: the state an execute call creates for
\* itself before its inference call.
NewExecution(streamed) ==
    [response |-> streamed, pos |-> 0,
     exec |-> Exec(InitialStreamingState, <<>>, <<>>, <<>>),
     pc |-> "streaming"]

\* The calls run against one GenerationContext; each has its own response.
InitInterleaved ==
    /\ \E n \in 1..MaxCalls :
          executions \in [1..n -> { NewExecution(r) : r \in InterleavedResponses }]
    /\ response = <<>>
    /\ pos = 0
    /\ shouldAutoFix \in BOOLEAN
    /\ realtimeEnabled = TRUE
    /\ allFiles \in AllFilesChoices
    /\ dupPolicy \in {"overwrite", "error"}
    /\ streamingState = InitialStreamingState
    /\ fixedFilePromises = <<>>
    /\ callbacks = <<>>
    /\ closeEvents = <<>>
    /\ splitInside = FALSE
    /\ pc = "idle"

\* Every call parses into the state of the first call.
StateOfFirstCall(call) == 1

\* PhaseImplementation.ts:355, 376-381: streamingState is a local of execute
\* and the onChunk closure of a call captures that call's own streamingState.
StateOfCall(call) == call

\* stream.onChunk of one call: the next k symbols of its response arrive.  A
\* callback runs to its end before another one starts.
ExecutionChunk(call, k) ==
    /\ executions[call].pc = "streaming"
    /\ executions[call].pos + k <= Len(executions[call].response)
    /\ LET chunk == SubSeq(executions[call].response, executions[call].pos + 1,
                           executions[call].pos + k)
           target == StateOfCall(call)
           E == ParseStreamingChunks(chunk, ChunkTarget(executions[target].exec))
       IN  executions' =
               [c \in DOMAIN executions |->
                   [executions[c] EXCEPT
                       !.exec = IF c = target THEN E ELSE @,
                       !.pos = IF c = call THEN @ + k ELSE @]]
    /\ UNCHANGED notIxVars

ExecutionStep ==
    \E call \in DOMAIN executions :
        \E k \in 1..(Len(executions[call].response) - executions[call].pos) :
            ExecutionChunk(call, k)

\* PhaseImplementation.ts:433-443: the inference call of one call resolves and
\* that call returns.
ExecutionReturn ==
    /\ \E call \in DOMAIN executions :
          /\ executions[call].pc = "streaming"
          /\ executions[call].pos = Len(executions[call].response)
          /\ executions' = [executions EXCEPT ![call].pc = "returned"]
    /\ UNCHANGED notIxVars

NextInterleaved ==
    \/ ExecutionStep
    \/ ExecutionReturn

InitSpecInterleaved ==
    InitInterleaved /\ IdlePhaseGeneration /\ IdleCodeReview /\ IdleCompaction /\ IdleConversation /\ IdleScreenshotAnalysis /\ IdleValidation /\ IdleAutoFix /\ IdleFastCodeFixer /\ IdleCustomDomain

SpecInterleaved == InitSpecInterleaved /\ [][NextInterleaved]_vars

\* What a call's state is after the symbols delivered to it so far, when
\* nothing but that call's own chunks, in their order, went into it.
OwnState(call) ==
    ParseStreamingChunks(
        SubSeq(executions[call].response, 1, executions[call].pos),
        Exec(InitialStreamingState, <<>>, <<>>, <<>>))

\* C25: each execute call has its own StreamingState and is its only writer:
\* however the chunks of several calls interleave, the state, the promises and
\* the callbacks of a call are those of its own response delivered so far, in
\* order, and hold nothing of another call's chunks.
C25_OwnStreamingState ==
    \A call \in DOMAIN executions : executions[call].exec = OwnState(call)

\* Two calls with different responses, both half-way through their streams
\* with something left in the accumulator, one of them having closed a file.
C25_Witness ==
    /\ Len(executions) = 2
    /\ executions[1].response # executions[2].response
    /\ \A call \in 1..2 :
          /\ executions[call].pos > 0
          /\ executions[call].pos < Len(executions[call].response)
          /\ executions[call].exec.streamingState.accumulator # <<>>
    /\ executions[1].exec.streamingState.parsingState.inFile
    /\ executions[2].exec.streamingState.parsingState.extractedInstallCommands # <<>>

\* ------------------------------------------------------- PhaseGeneration

Efforts == {"low", "medium", "high", "undefined"}

RECURSIVE SuggestionLists(_)
SuggestionLists(n) ==
    IF n = 0 THEN { <<>> }
    ELSE LET shorter == SuggestionLists(n - 1)
         IN  shorter \cup { Append(l, "suggestion") : l \in shorter }

\* inputs.userContext: absent, present without suggestions (undefined or
\* null), or present with a list of suggestions, which may be empty.
UserContexts ==
    { NoUserContext,
      [present |-> TRUE, hasSuggestions |-> FALSE, suggestions |-> <<>>] }
    \cup { [present |-> TRUE, hasSuggestions |-> TRUE, suggestions |-> l] :
             l \in SuggestionLists(MaxSuggestions) }

\* The truthiness of userContext?.suggestions: undefined and null are falsy,
\* every array is truthy, the empty one too.
SuggestionsTruthy(userContext) ==
    userContext.present /\ userContext.hasSuggestions

\* PhaseGeneration.ts:419
HasHighPriorityWork(userContext, runtimeErrors) ==
    SuggestionsTruthy(userContext) \/ runtimeErrors > 0

\* The tiers the wrong way round.
RaisedEffortSwapped(configured) == IF configured = "low" THEN "high" ELSE "medium"

\* PhaseGeneration.ts:421
RaisedEffort(configured) == IF configured = "low" THEN "medium" ELSE "high"

\* PhaseGeneration.ts:420-422
ReasoningEffort(configured, userContext, runtimeErrors) ==
    IF HasHighPriorityWork(userContext, runtimeErrors)
    THEN RaisedEffort(configured)
    ELSE "undefined"

InitPhaseGeneration ==
    /\ pgConfigured \in Efforts
    /\ pgUserContext \in UserContexts
    /\ pgRuntimeErrors \in 0..MaxIssues
    /\ pgRequested = "undefined"
    /\ pgPc = "start"
    /\ pgCalls = 0
    /\ pgInferenceError = "none"
    /\ pgOutcome = NoOutcome

\* PhaseGeneration.ts:395-432: the prompt is built and the one inference call
\* is issued with the arbitrated reasoning effort.
PhaseGenerationInfer ==
    /\ pgPc = "start"
    /\ pgRequested' = ReasoningEffort(pgConfigured, pgUserContext, pgRuntimeErrors)
    /\ pgPc' = "inferring"
    /\ pgCalls' = pgCalls + 1
    /\ UNCHANGED <<pgConfigured, pgUserContext, pgRuntimeErrors,
                   pgInferenceError, pgOutcome>>
    /\ UNCHANGED notPgVars

\* PhaseGeneration.ts:434-440
PhaseGenerationReturn ==
    /\ pgPc = "inferring"
    /\ pgPc' = "returned"
    /\ pgOutcome' = [kind |-> "returned", value |-> "PhaseConcept", error |-> "none"]
    /\ UNCHANGED <<pgConfigured, pgUserContext, pgRuntimeErrors, pgRequested,
                   pgCalls, pgInferenceError>>
    /\ UNCHANGED notPgVars

\* The errors the inference boundary may fail with.
InferenceErrors == {"RateLimitExceededError", "SecurityError", "InferenceError"}

\* The caught error replaced by a generic one.
RethrownAsGeneric(error) == "Error"

\* PhaseGeneration.ts:443: throw error
Rethrown(error) == error

\* PhaseGeneration.ts:441-444: the inference error is logged and rethrown.
PhaseGenerationThrow ==
    /\ pgPc = "inferring"
    /\ \E error \in InferenceErrors :
          /\ pgInferenceError' = error
          /\ pgOutcome' = [kind |-> "threw", value |-> "none", error |-> Rethrown(error)]
    /\ pgPc' = "threw"
    /\ UNCHANGED <<pgConfigured, pgUserContext, pgRuntimeErrors, pgRequested, pgCalls>>
    /\ UNCHANGED notPgVars

NextPhaseGeneration ==
    \/ PhaseGenerationInfer
    \/ PhaseGenerationReturn
    \/ PhaseGenerationThrow

InitSpecPhaseGeneration ==
    InitPhaseGeneration /\ IdlePhase /\ IdleCodeReview /\ IdleCompaction /\ IdleConversation /\ IdleScreenshotAnalysis /\ IdleValidation /\ IdleAutoFix /\ IdleFastCodeFixer /\ IdleInterleaved /\ IdleCustomDomain

SpecPhaseGeneration == InitSpecPhaseGeneration /\ [][NextPhaseGeneration]_vars

SuggestionPending ==
    /\ pgUserContext.present
    /\ pgUserContext.hasSuggestions
    /\ Len(pgUserContext.suggestions) >= 1

\* C6: when the issue report holds a runtime error or a user suggestion is
\* pending, the inference call is made with reasoning effort 'medium' if the
\* configured effort is 'low' and with 'high' for every other configured value.
C6_EffortRaisedOneTier ==
    (pgPc \in {"inferring", "returned", "threw"}
       /\ (pgRuntimeErrors >= 1 \/ SuggestionPending)) =>
        /\ pgConfigured = "low" => pgRequested = "medium"
        /\ pgConfigured # "low" => pgRequested = "high"

\* A pending suggestion alone, configured effort 'low', raised to 'medium'.
C6_Witness ==
    /\ pgPc = "returned"
    /\ pgRuntimeErrors = 0
    /\ SuggestionPending
    /\ pgConfigured = "low"
    /\ pgRequested = "medium"

\* C7: when the issue report has no runtime error and no suggestion is pending
\* (no user context, no suggestions, or an empty list of suggestions), the
\* inference call is made without a reasoning-effort override.
C7_NoOverrideWithoutPriorityWork ==
    (pgPc \in {"inferring", "returned", "threw"}
       /\ pgRuntimeErrors = 0 /\ ~SuggestionPending) =>
        pgRequested = "undefined"

\* C20: one invocation of PhaseGeneration.execute calls the inference boundary
\* at most once; when that call fails, execute has made exactly that one call,
\* fails with the very error of the call and returns no PhaseConcept.
C20_InferenceErrorPropagates ==
    /\ pgCalls <= 1
    /\ pgInferenceError # "none" =>
          /\ pgCalls = 1
          /\ pgPc = "threw"
          /\ pgOutcome.kind = "threw"
          /\ pgOutcome.error = pgInferenceError
          /\ pgOutcome.value = "none"

\* The inference call failed with a plain inference error, and execute threw it.
C20_Witness ==
    /\ pgPc = "threw"
    /\ pgCalls = 1
    /\ pgInferenceError = "InferenceError"
    /\ pgOutcome = [kind |-> "threw", value |-> "none", error |-> "InferenceError"]

\* ------------------------------------------------------------ CodeReview

\* One entry of CodeReviewOutput.filesToFix: refs are the file paths its
\* issues, fix_scope and context strings mention.
ReviewEntries ==
    [filePath : Paths, refs : SUBSET Paths, coordination_required : BOOLEAN]

RECURSIVE ReviewLists(_)
ReviewLists(n) ==
    IF n = 0 THEN { <<>> }
    ELSE LET shorter == ReviewLists(n - 1)
         IN  shorter \cup { Append(l, e) : l \in { x \in shorter : Len(x) = n - 1 },
                                           e \in ReviewEntries }

\* The objects the inference boundary may return for the CodeReviewOutput schema.
ReviewOutputs == { [filesToFix |-> l] : l \in ReviewLists(MaxReviewEntries) }

\* Only the runtime errors are looked at.
ReviewReasoningEffortRuntimeOnly(issues) ==
    IF issues.runtimeErrors # 0 THEN "undefined" ELSE "low"

\* CodeReview.ts:400: a || b || c > 0 ? undefined : 'low'
ReviewReasoningEffort(issues) ==
    IF issues.runtimeErrors # 0 \/ issues.lint # 0 \/ issues.typecheck > 0
    THEN "undefined"
    ELSE "low"

InitCodeReview ==
    /\ crIssues \in [runtimeErrors : 0..MaxIssues, lint : 0..MaxIssues,
                     typecheck : 0..MaxIssues]
    /\ crRequested = "undefined"
    /\ crResult = NoReview
    /\ crPc = "start"

\* CodeReview.ts:394-401
CodeReviewInfer ==
    /\ crPc = "start"
    /\ crRequested' = ReviewReasoningEffort(crIssues)
    /\ crPc' = "inferring"
    /\ UNCHANGED <<crIssues, crResult>>
    /\ UNCHANGED notCrVars

\* CodeReview.ts:403-412: the review result is returned as the inference
\* boundary delivered it.
CodeReviewReturn ==
    /\ crPc = "inferring"
    /\ \E reviewResult \in ReviewOutputs : crResult' = reviewResult
    /\ crPc' = "returned"
    /\ UNCHANGED <<crIssues, crRequested>>
    /\ UNCHANGED notCrVars

\* CodeReview.ts:403-405, 413-416: no result, or an inference error: rethrown.
CodeReviewThrow ==
    /\ crPc = "inferring"
    /\ crPc' = "threw"
    /\ UNCHANGED <<crIssues, crRequested, crResult>>
    /\ UNCHANGED notCrVars

NextCodeReview ==
    \/ CodeReviewInfer
    \/ CodeReviewReturn
    \/ CodeReviewThrow

InitSpecCodeReview ==
    InitCodeReview /\ IdlePhase /\ IdlePhaseGeneration /\ IdleCompaction /\ IdleConversation /\ IdleScreenshotAnalysis /\ IdleValidation /\ IdleAutoFix /\ IdleFastCodeFixer /\ IdleInterleaved /\ IdleCustomDomain

SpecCodeReview == InitSpecCodeReview /\ [][NextCodeReview]_vars

SelfContained(entry) ==
    entry.coordination_required \/ entry.refs \subseteq {entry.filePath}

\* C8: every entry of the CodeReviewOutput that execute returns is
\* self-contained: unless it is marked coordination_required, its strings
\* mention no file path but its own.
C8_ReturnedReviewSelfContained ==
    crPc = "returned" =>
        \A i \in 1..Len(crResult.filesToFix) : SelfContained(crResult.filesToFix[i])

\* C23: the reasoning effort CodeReview hands to the inference call is 'low'
\* exactly when the IssueReport holds no runtime error, no lint issue and no
\* typecheck issue; with any of the three lists non-empty it passes no
\* override (undefined).
C23_LowEffortIffNoIssues ==
    crPc \in {"inferring", "returned", "threw"} =>
        LET noIssues == /\ crIssues.runtimeErrors = 0
                        /\ crIssues.lint = 0
                        /\ crIssues.typecheck = 0
        IN  /\ noIssues => crRequested = "low"
            /\ ~noIssues => crRequested = "undefined"

\* A report with lint issues only: the inference was called with no override.
C23_Witness ==
    /\ crPc = "inferring"
    /\ crIssues.runtimeErrors = 0
    /\ crIssues.lint > 0
    /\ crIssues.typecheck = 0
    /\ crRequested = "undefined"

\* ------------------------------- UserConversationProcessor.compactifyContext

\* A message text is a sequence of tokens: "w" a one-character word, "L" a
\* word of LongWord characters, "s" a space, "n" a newline, "C" an embedded
\* <system_context> block, and the fixed pieces of a summary.

\* constants.ts (imported in UserConversationProcessor.ts:10)
MAX_LLM_MESSAGES == 100

\* UserConversationProcessor.ts:347
MAX_MESSAGE_LENGTH == 400

\* UserConversationProcessor.ts:345: Math.floor(0.8 * MAX_LLM_MESSAGES)
COMPACTION_THRESHOLD == (8 * MAX_LLM_MESSAGES) \div 10

\* Rounded down instead of up.
NumToPreserveFloor(n) == (4 * n) \div 10

\* UserConversationProcessor.ts:353: Math.ceil(messages.length * 0.4)
NumToPreserve(n) == (4 * n + 9) \div 10

Message(role, kind, text, images, toolCalls, id) ==
    [role |-> role, kind |-> kind, text |-> text, images |-> images,
     toolCalls |-> toolCalls, conversationId |-> <<"conv", id>>, condensed |-> 0]

\* The i-th message of a history: the shapes of content the code tells apart.
MakeMessage(i) ==
    CASE i % 6 = 1 -> Message("user", "string", <<"C", "n", "w", "s", "s", "w">>, 0, <<>>, i)
      [] i % 6 = 2 -> Message("assistant", "string", <<"w", "n", "n", "w", "s">>, 0, <<>>, i)
      [] i % 6 = 3 -> Message("user", "parts", <<"w">>, 1, <<>>, i)
      [] i % 6 = 4 -> Message("assistant", "null", <<>>, 0, <<"queue_request">>, i)
      [] i % 6 = 5 -> Message("tool", "string", <<"L", "w", "w">>, 0, <<>>, i)
      [] OTHER     -> Message("user", "string", <<"C">>, 0, <<>>, i)

MakeHistory(n) == [i \in 1..n |-> MakeMessage(i)]

IsSpace(tok) == tok \in {"s", "n"}

\* Each token of a text paired with the token before it ("" before the first).
WithPrevious(text) ==
    [i \in 1..Len(text) |-> <<text[i], IF i = 1 THEN "" ELSE text[i - 1]>>]

Tokens(pairs) == [i \in 1..Len(pairs) |-> pairs[i][1]]

NotInSystemContext(pair) == pair[1] # "C" /\ ~(pair[1] = "n" /\ pair[2] = "C")

\* /<system_context>[\s\S]*?<\/system_context>\n?/gi replaced by ''
RemoveSystemContext(text) ==
    Tokens(SelectSeq(WithPrevious(text), NotInSystemContext))

\* String.prototype.trim
Trim(text) ==
    LET solid == { i \in 1..Len(text) : ~IsSpace(text[i]) }
    IN  IF solid = {} THEN <<>>
        ELSE SubSeq(text,
                    CHOOSE i \in solid : \A j \in solid : i <= j,
                    CHOOSE i \in solid : \A j \in solid : i >= j)

\* UserConversationProcessor.ts:339-341
StripSystemContext(text) == Trim(RemoveSystemContext(text))

TokenLength(tok) ==
    CASE tok = "L" -> LongWord
      [] tok = "..." -> 3
      [] tok = "<Compactified Conversation History>" -> 35
      [] tok = "[older messages condensed]" -> 50
      [] tok = "---" -> 3
      [] tok = "[Recent conversation continues below]" -> 55
      [] tok = "assistant (you): " -> 17
      [] tok = "User: " -> 6
      [] tok = "tool: " -> 6
      [] tok = "[image(s) attached]" -> 21
      [] tok = "[Used tools]" -> 27
      [] tok = "[Empty message]" -> 15
      [] OTHER -> 1

RECURSIVE RangeLength(_, _, _)
\* Characters of the tokens lo..hi of a text.
RangeLength(text, lo, hi) ==
    IF lo > hi THEN 0
    ELSE IF lo = hi THEN TokenLength(text[lo])
    ELSE LET mid == (lo + hi) \div 2
         IN  RangeLength(text, lo, mid) + RangeLength(text, mid + 1, hi)

TextLength(text) == RangeLength(text, 1, Len(text))

RECURSIVE FittingTokens(_, _, _, _)
\* The largest k in lo..hi whose first k tokens have at most limit characters.
FittingTokens(text, limit, lo, hi) ==
    IF lo = hi THEN lo
    ELSE LET mid == (lo + hi + 1) \div 2
         IN  IF RangeLength(text, 1, mid) <= limit
             THEN FittingTokens(text, limit, mid, hi)
             ELSE FittingTokens(text, limit, lo, mid - 1)

\* text.substring(0, limit): the longest run of leading tokens that fits.
Substring(text, limit) ==
    SubSeq(text, 1, FittingTokens(text, limit, 0, Len(text)))

\* UserConversationProcessor.ts:404-406
Truncate(text) ==
    IF TextLength(text) > MAX_MESSAGE_LENGTH
    THEN Substring(text, MAX_MESSAGE_LENGTH) \o <<"...">>
    ELSE text

NotRepeatedSpace(pair) == ~(IsSpace(pair[1]) /\ IsSpace(pair[2]))

\* .replace(/\n+/g, ' ').replace(/\s+/g, ' ')
CollapseSpaces(text) ==
    LET kept == Tokens(SelectSeq(WithPrevious(text), NotRepeatedSpace))
    IN  [i \in 1..Len(kept) |-> IF IsSpace(kept[i]) THEN "s" ELSE kept[i]]

\* UserConversationProcessor.ts:408-411
NormalizeWhitespace(text) == Trim(CollapseSpaces(text))

\* UserConversationProcessor.ts:371
RoleLabel(msg) ==
    IF msg.role = "assistant" THEN "assistant (you): "
    ELSE IF msg.role = "user" THEN "User: "
    ELSE "tool: "

\* UserConversationProcessor.ts:372-400
RawMessageText(msg) ==
    CASE msg.kind = "string" -> msg.text
      [] msg.kind = "parts" ->
            msg.text \o (IF msg.images > 0 THEN <<"s", "[image(s) attached]">> ELSE <<>>)
      [] OTHER ->
            IF Len(msg.toolCalls) > 0 THEN <<"[Used tools]">> ELSE <<"[Empty message]">>

\* UserConversationProcessor.ts:402-415: the summary line of one old message,
\* no line when nothing is left of its text.
SummaryLine(msg) ==
    LET messageText == NormalizeWhitespace(Truncate(StripSystemContext(RawMessageText(msg))))
    IN  IF messageText = <<>> THEN <<>>
        ELSE <<RoleLabel(msg)>> \o messageText \o <<"n">>

RECURSIVE JoinLines(_, _, _)
\* The summary lines of the old messages lo..hi, one after the other.
JoinLines(oldMessages, lo, hi) ==
    IF lo > hi THEN <<>>
    ELSE IF lo = hi THEN SummaryLine(oldMessages[lo])
    ELSE LET mid == (lo + hi) \div 2
         IN  JoinLines(oldMessages, lo, mid) \o JoinLines(oldMessages, mid + 1, hi)

\* UserConversationProcessor.ts:369-420
SummaryLines(oldMessages) == JoinLines(oldMessages, 1, Len(oldMessages))

\* UserConversationProcessor.ts:429: `compactified-${Date.now()}`
CompactifiedId == <<"compactified", 0>>

\* UserConversationProcessor.ts:363-367, 422-430: the synthetic summary message;
\* the number of its count line is kept in the field condensed.
CompactifiedMessage(oldMessages) ==
    [role |-> "user", kind |-> "string",
     text |-> <<"<Compactified Conversation History>", "n",
                "[older messages condensed]", "n", "n">>
              \o SummaryLines(oldMessages)
              \o <<"n", "---", "n", "[Recent conversation continues below]">>,
     images |-> 0, toolCalls |-> <<>>,
     conversationId |-> CompactifiedId, condensed |-> Len(oldMessages)]

\* messages.slice(-n): the last n messages; the whole list when n is 0.
SliceLast(messages, n) ==
    IF n = 0 THEN messages
    ELSE SubSeq(messages, Len(messages) - n + 1, Len(messages))

\* UserConversationProcessor.ts:343-432
CompactifyContext(messages) ==
    IF Len(messages) < COMPACTION_THRESHOLD THEN messages
    ELSE
      LET numToPreserve == NumToPreserve(Len(messages))
          numToCompactify == Len(messages) - numToPreserve
      IN  IF numToCompactify <= 0 THEN SliceLast(messages, numToPreserve)
          ELSE <<CompactifiedMessage(SubSeq(messages, 1, numToCompactify))>>
               \o SubSeq(messages, numToCompactify + 1, Len(messages))

\* The messages a compactifyContext call on messages returns verbatim.
KeptVerbatim(messages) ==
    IF Len(messages) < COMPACTION_THRESHOLD THEN messages
    ELSE SliceLast(messages, NumToPreserve(Len(messages)))

InitCompaction ==
    /\ \E n \in 0..MaxHistory : cvMessages = MakeHistory(n)
    /\ cvInput = <<>>
    /\ cvFirstKept = <<>>
    /\ cvRuns = 0

\* One compactifyContext call on the history the previous call returned.
Compactify ==
    /\ cvRuns < MaxRuns
    /\ cvInput' = cvMessages
    /\ cvMessages' = CompactifyContext(cvMessages)
    /\ cvFirstKept' = IF cvRuns = 0 THEN KeptVerbatim(cvMessages) ELSE cvFirstKept
    /\ cvRuns' = cvRuns + 1
    /\ UNCHANGED notCvVars

NextCompaction == Compactify

InitSpecCompaction ==
    InitCompaction /\ IdlePhase /\ IdlePhaseGeneration /\ IdleCodeReview /\ IdleConversation /\ IdleScreenshotAnalysis /\ IdleValidation /\ IdleAutoFix /\ IdleFastCodeFixer /\ IdleInterleaved /\ IdleCustomDomain

SpecCompaction == InitSpecCompaction /\ [][NextCompaction]_vars

\* The message is one of the messages of the history, unaltered.
PresentVerbatim(msg, messages) ==
    \E j \in 1..Len(messages) : messages[j] = msg

\* C9: a history of n messages is returned unchanged when n is below
\* floor(0.8 * MAX_LLM_MESSAGES) = 80; from 80 messages on the result is exactly
\* one synthetic summary message, standing for all the older messages, followed
\* by the most recent ceil(0.4 * n) messages, verbatim and in their order.
C9_CompactionShape ==
    cvRuns >= 1 =>
        LET n == Len(cvInput)
            kept == (2 * n + 4) \div 5
        IN  IF n < 80
            THEN cvMessages = cvInput
            ELSE /\ Len(cvMessages) = 1 + kept
                 /\ cvMessages[1].conversationId[1] = "compactified"
                 /\ cvMessages[1].role = "user"
                 /\ cvMessages[1].condensed = n - kept
                 /\ \A i \in 1..kept : cvMessages[1 + i] = cvInput[n - kept + i]
                 /\ \A i \in 1..kept : cvMessages[1 + i].conversationId = cvInput[n - kept + i].conversationId

\* Scenario C: 100 messages become 1 summary of 60 messages and the last 40.
C9_Witness ==
    /\ cvRuns = 1
    /\ Len(cvInput) = 100
    /\ Len(cvMessages) = 41
    /\ cvMessages[1].condensed = 60
    /\ cvMessages[2] = cvInput[61]
    /\ cvMessages[41] = cvInput[100]

\* C10: after a second compactifyContext call on the output of the first,
\* every message the first call kept verbatim is still present verbatim.
C10_SecondRunKeepsSuffix ==
    cvRuns = 2 =>
        \A i \in 1..Len(cvFirstKept) : PresentVerbatim(cvFirstKept[i], cvMessages)

\* ------------------------------------------- UserConversationProcessor.execute

\* Chunks of one streamed conversational response.
MaxChunks == 2

\* Tool calls of one inference.
MaxToolCalls == 1

\* Length of the short conversation history.
ShortHistory == 2

\* The tools buildTools(agent, logger) offers.
ToolNames == {"queue_request", "web_search"}

\* UserConversationProcessor.ts:302
FALLBACK_USER_RESPONSE == <<"I understand you'd like to make some changes">>

\* The errors a step of execute may fail with.
ConversationErrors ==
    {"RateLimitExceededError", "SecurityError", "InferenceError", "TypeError"}

\* Only the rate-limit error is recognised.
IsRateLimitError(error) == error = "RateLimitExceededError"

\* UserConversationProcessor.ts:556
\* error instanceof RateLimitExceededError || error instanceof SecurityError
IsPolicyError(error) == error \in {"RateLimitExceededError", "SecurityError"}

\* inputs.pastMessages: no history, a short one, one at the compaction threshold.
PastMessagesChoices ==
    { MakeHistory(0), MakeHistory(ShortHistory), MakeHistory(COMPACTION_THRESHOLD) }

\* IdGenerator.generateConversationId(): the k-th id generated after ids ids,
\* different from every id of the history.
GenerateConversationId(past, ids, k) == Len(past) + ids + k

\* inputs.userMessage
UserMessageText == <<"w">>

\* UserConversationProcessor.ts:317-335, 466-469: the template with the system
\* context redacted, then the note on the attached images.
UserPromptForHistory(images) ==
    <<"n", "C", "n">> \o UserMessageText \o <<"n">>
    \o (IF images > 0 THEN <<"n", "n", "[image(s) attached]">> ELSE <<>>)

\* UserConversationProcessor.ts:457-464
UserMessageForInference(images, id) ==
    IF images > 0
    THEN Message("user", "parts", <<"n", "C", "n">> \o UserMessageText \o <<"n">>,
                 images, <<>>, id)
    ELSE Message("user", "string", <<"n", "C", "n">> \o UserMessageText \o <<"n">>,
                 0, <<>>, id)

\* result.string
ResultString == <<"w", "s", "w">>

\* One conversationResponseCallback invocation; call is the tool call the
\* handler was installed for, 0 for a streamed chunk.
ChunkCallback(chunk, aiConversationId) ==
    [message |-> chunk, conversationId |-> aiConversationId, isStreaming |-> TRUE,
     tool |-> "none", status |-> "none", call |-> 0]

ToolCallback(name, status, aiConversationId, call) ==
    [message |-> <<>>, conversationId |-> aiConversationId, isStreaming |-> FALSE,
     tool |-> name, status |-> status, call |-> call]

\* UserConversationProcessor.ts:472 (the second id execute generates)
AiConversationId == GenerateConversationId(ucPast, 0, 2)

\* The history replaced by the list that holds the redacted prompt.
FallbackMessagesFromHistory(past, ids) ==
    ucMessages \o
    << Message("assistant", "string", FALLBACK_USER_RESPONSE, 0, <<>>,
               GenerateConversationId(past, ids, 1)) >>

\* UserConversationProcessor.ts:564-568
FallbackMessages(past, ids) ==
    past \o
    << Message("user", "string", UserMessageText, 0, <<>>,
               GenerateConversationId(past, ids, 1)),
       Message("assistant", "string", FALLBACK_USER_RESPONSE, 0, <<>>,
               GenerateConversationId(past, ids, 2)) >>

\* UserConversationProcessor.ts:554-570: the catch block of execute.
Catch(error, past, ids) ==
    IF IsPolicyError(error)
    THEN [kind |-> "threw", error |-> error, userResponse |-> <<>>, messages |-> <<>>]
    ELSE [kind |-> "returned", error |-> "none",
          userResponse |-> FALLBACK_USER_RESPONSE,
          messages |-> FallbackMessages(past, ids)]

SettledPc(outcome) == IF outcome.kind = "threw" THEN "threw" ELSE "returned"

\* result.toolCallContext.messages: per tool call the assistant's call and the
\* tool's answer, and possibly an internal memo of the assistant.
ToolCallContextMessages(tools, memo) ==
    [j \in 1..(2 * Len(tools)) |->
        IF j % 2 = 1
        THEN Message("assistant", "null", <<>>, 0, <<tools[(j + 1) \div 2].name>>, 0)
        ELSE Message("tool", "string", <<"w">>, 0, <<>>, 0)]
    \o (IF memo THEN << Message("assistant", "string", <<"M", "s", "w">>, 0, <<>>, 0) >>
        ELSE <<>>)

\* UserConversationProcessor.ts:547: the filter on 'Internal Memo'
NotInternalMemo(message) ==
    ~(/\ message.role = "assistant"
      /\ message.kind = "string"
      /\ \E i \in 1..Len(message.text) : message.text[i] = "M")

\* UserConversationProcessor.ts:544-552: the history execute returns on success.
SuccessMessages(messages, toolMessages, past, ids) ==
    LET kept == SelectSeq(toolMessages, NotInternalMemo)
        stamped == [j \in 1..Len(kept) |->
                       [kept[j] EXCEPT !.conversationId =
                           <<"conv", GenerateConversationId(past, ids, j)>>]]
    IN  messages \o stamped \o
        << Message("assistant", "string", ResultString, 0, <<>>,
                   GenerateConversationId(past, ids, Len(kept) + 1)) >>

\* The older messages are cut out of the list itself.
PastSpliced(messages) == CompactifyContext(messages)

\* UserConversationProcessor.ts:355-361, 426-432, 439: compactifyContext reads
\* its argument with length and slice only and returns a new list, so the
\* list the caller passed holds afterwards what it held before.
PastAfterCompactify(messages) == messages

InitConversation ==
    /\ ucPast \in PastMessagesChoices
    /\ ucImages \in 0..1
    /\ ucMessages = <<>>
    /\ ucSent = <<>>
    /\ ucIds = 0
    /\ ucExtracted = <<>>
    /\ ucCallbacks = <<>>
    /\ ucTools = <<>>
    /\ ucError = "none"
    /\ ucOutcome = NoConversationOutcome
    /\ ucPc = "start"

\* UserConversationProcessor.ts:455-521: the messages are built, the tools get
\* their handlers, the history is compacted and the inference call is issued.
ConversationSetup ==
    /\ ucPc = "start"
    /\ ucMessages' = Append(ucPast,
                            Message("user", "string", UserPromptForHistory(ucImages),
                                    0, <<>>, GenerateConversationId(ucPast, 0, 1)))
    /\ ucSent' = Append(CompactifyContext(ucPast),
                        UserMessageForInference(ucImages,
                                                GenerateConversationId(ucPast, 0, 3)))
    /\ ucPast' = PastAfterCompactify(ucPast)
    /\ ucIds' = 3
    /\ ucPc' = "inferring"
    /\ UNCHANGED <<ucImages, ucExtracted, ucCallbacks, ucTools, ucError, ucOutcome>>
    /\ UNCHANGED notUcVars

\* A step before the inference call throws inside the try block.
ConversationSetupFails ==
    /\ ucPc = "start"
    /\ \E error \in ConversationErrors :
          LET outcome == Catch(error, ucPast, ucIds)
          IN  /\ ucError' = error
              /\ ucOutcome' = outcome
              /\ ucPc' = SettledPc(outcome)
              /\ ucIds' = IF outcome.kind = "returned" THEN ucIds + 2 ELSE ucIds
    /\ UNCHANGED <<ucPast, ucImages, ucMessages, ucSent, ucExtracted, ucCallbacks, ucTools>>
    /\ UNCHANGED notUcVars

\* UserConversationProcessor.ts:515-519: stream.onChunk
ConversationChunk ==
    /\ ucPc = "inferring"
    /\ Len(ucExtracted) < MaxChunks
    /\ ucCallbacks' = Append(ucCallbacks, ChunkCallback(<<"w">>, AiConversationId))
    /\ ucExtracted' = ucExtracted \o <<"w">>
    /\ UNCHANGED <<ucPast, ucImages, ucMessages, ucSent, ucIds, ucTools, ucError,
                   ucOutcome, ucPc>>
    /\ UNCHANGED notUcVars

\* UserConversationProcessor.ts:481-486: the inference starts a tool call and
\* calls the tool's onStart handler first.
ToolStart ==
    /\ ucPc = "inferring"
    /\ Len(ucTools) < MaxToolCalls
    /\ \E name \in ToolNames :
          /\ ucTools' = Append(ucTools, [name |-> name, state |-> "running"])
          /\ ucCallbacks' = Append(ucCallbacks,
                                   ToolCallback(name, "start", AiConversationId,
                                                Len(ucTools) + 1))
    /\ UNCHANGED <<ucPast, ucImages, ucMessages, ucSent, ucIds, ucExtracted, ucError,
                   ucOutcome, ucPc>>
    /\ UNCHANGED notUcVars

\* UserConversationProcessor.ts:487-492: onComplete
OnComplete(cbs, call) ==
    Append(cbs, ToolCallback(ucTools[call].name, "success", AiConversationId, call))

\* The tool returns and the inference calls its onComplete handler.
ToolSucceeds ==
    /\ ucPc = "inferring"
    /\ \E call \in 1..Len(ucTools) :
          /\ ucTools[call].state = "running"
          /\ ucTools' = [ucTools EXCEPT ![call].state = "succeeded"]
          /\ ucCallbacks' = OnComplete(ucCallbacks, call)
    /\ UNCHANGED <<ucPast, ucImages, ucMessages, ucSent, ucIds, ucExtracted, ucError,
                   ucOutcome, ucPc>>
    /\ UNCHANGED notUcVars

\* The tool fails.  Whether the inference still calls onComplete for a failed
\* call is not decided by this file: both are possible.
ToolFails ==
    /\ ucPc = "inferring"
    /\ \E call \in 1..Len(ucTools), completes \in BOOLEAN :
          /\ ucTools[call].state = "running"
          /\ ucTools' = [ucTools EXCEPT ![call].state = "failed"]
          /\ ucCallbacks' = IF completes THEN OnComplete(ucCallbacks, call)
                            ELSE ucCallbacks
    /\ UNCHANGED <<ucPast, ucImages, ucMessages, ucSent, ucIds, ucExtracted, ucError,
                   ucOutcome, ucPc>>
    /\ UNCHANGED notUcVars

\* UserConversationProcessor.ts:523-553: the inference resolves, the tool
\* context and the assistant's answer are appended, execute returns.
InferenceResolves ==
    /\ ucPc = "inferring"
    /\ \A call \in 1..Len(ucTools) : ucTools[call].state # "running"
    /\ \E memo \in BOOLEAN :
          LET messages == SuccessMessages(ucMessages,
                                          ToolCallContextMessages(ucTools, memo),
                                          ucPast, ucIds)
          IN  /\ ucOutcome' = [kind |-> "returned", error |-> "none",
                               userResponse |-> ucExtracted, messages |-> messages]
              /\ ucMessages' = messages
              /\ ucIds' = ucIds + (Len(messages) - Len(ucMessages))
    /\ ucPc' = "returned"
    /\ UNCHANGED <<ucPast, ucImages, ucSent, ucExtracted, ucCallbacks, ucTools, ucError>>
    /\ UNCHANGED notUcVars

\* UserConversationProcessor.ts:554-570: the inference call rejects.
InferenceRejects ==
    /\ ucPc = "inferring"
    /\ \E error \in ConversationErrors :
          LET outcome == Catch(error, ucPast, ucIds)
          IN  /\ ucError' = error
              /\ ucOutcome' = outcome
              /\ ucPc' = SettledPc(outcome)
              /\ ucIds' = IF outcome.kind = "returned" THEN ucIds + 2 ELSE ucIds
    /\ UNCHANGED <<ucPast, ucImages, ucMessages, ucSent, ucExtracted, ucCallbacks, ucTools>>
    /\ UNCHANGED notUcVars

NextConversation ==
    \/ ConversationSetup
    \/ ConversationSetupFails
    \/ ConversationChunk
    \/ ToolStart
    \/ ToolSucceeds
    \/ ToolFails
    \/ InferenceResolves
    \/ InferenceRejects

InitSpecConversation ==
    InitConversation /\ IdlePhase /\ IdlePhaseGeneration /\ IdleCodeReview /\ IdleCompaction /\ IdleScreenshotAnalysis /\ IdleValidation /\ IdleAutoFix /\ IdleFastCodeFixer /\ IdleInterleaved /\ IdleCustomDomain

SpecConversation == InitSpecConversation /\ [][NextConversation]_vars

\* C11: when a step of execute fails with a RateLimitExceededError or a
\* SecurityError, execute throws that same error and returns neither the
\* fallback response nor a history.
C11_PolicyErrorsRethrown ==
    ucError \in {"RateLimitExceededError", "SecurityError"} =>
        /\ ucPc = "threw"
        /\ ucOutcome.kind = "threw"
        /\ ucOutcome.error = ucError
        /\ ucOutcome.userResponse # FALLBACK_USER_RESPONSE
        /\ ucOutcome.messages = <<>>

\* The inference call was rejected with a SecurityError after a chunk had been
\* streamed, and execute threw the SecurityError.
C11_Witness ==
    /\ ucError = "SecurityError"
    /\ Len(ucExtracted) >= 1
    /\ ucPc = "threw"
    /\ ucOutcome.error = "SecurityError"

\* C12: when a step of execute fails with any other error, execute does not
\* throw: it returns the fallback text as userResponse and the history made of
\* the unchanged pastMessages, the user's message and one assistant message
\* holding the fallback text.
C12_OtherErrorsFallBack ==
    ucError \notin {"none", "RateLimitExceededError", "SecurityError"} =>
        LET n == Len(ucPast)
            returned == ucOutcome.messages
        IN  /\ ucPc = "returned"
            /\ ucOutcome.kind = "returned"
            /\ ucOutcome.userResponse = FALLBACK_USER_RESPONSE
            /\ Len(returned) = n + 2
            /\ \A i \in 1..n : returned[i] = ucPast[i]
            /\ returned[n + 1].role = "user"
            /\ returned[n + 1].text = UserMessageText
            /\ returned[n + 2].role = "assistant"
            /\ returned[n + 2].text = FALLBACK_USER_RESPONSE

\* The inference failed with a plain error on a history long enough to be
\* compacted, after a tool call: the fallback is returned on the whole history.
C12_Witness ==
    /\ ucError = "InferenceError"
    /\ Len(ucPast) >= COMPACTION_THRESHOLD
    /\ Len(ucSent) < Len(ucPast)
    /\ Len(ucTools) >= 1
    /\ ucOutcome.kind = "returned"
    /\ Len(ucOutcome.messages) = Len(ucPast) + 2

\* The callbacks invoked for one tool call with one of the given statuses.
ToolCallbacksOf(call, statuses) ==
    { i \in 1..Len(ucCallbacks) :
        ucCallbacks[i].call = call /\ ucCallbacks[i].status \in statuses }

\* C13: for every tool call the callback is invoked with status 'start' before
\* the tool runs and, once the call is over, exactly once with a terminal
\* status for the same tool: 'success' if it succeeded, 'error' if it failed.
C13_ToolStatusReported ==
    \A call \in 1..Len(ucTools) :
        LET starts == ToolCallbacksOf(call, {"start"})
            terminals == ToolCallbacksOf(call, {"success", "error"})
        IN  /\ Cardinality(starts) = 1
            /\ \A i \in starts : ucCallbacks[i].tool = ucTools[call].name
            /\ ucTools[call].state = "running" => terminals = {}
            /\ ucTools[call].state # "running" =>
                  /\ Cardinality(terminals) = 1
                  /\ \A i \in terminals :
                        /\ \A j \in starts : j < i
                        /\ ucCallbacks[i].tool = ucTools[call].name
                        /\ ucCallbacks[i].status =
                              IF ucTools[call].state = "succeeded"
                              THEN "success" ELSE "error"

\* ------------------------------------------------- ScreenshotAnalysis.execute

\* The image URLs a codebase may reference.
CodebaseImageUrls == {"hero.jpg", "card.png", "logo.svg"}

\* An issue of the report about a broken image URL.
BrokenImageIssue(url) == [kind |-> "broken image", url |-> url]

\* The issues the vision model may report.
AnalysisIssues ==
    { [kind |-> "layout", url |-> ""] } \cup { BrokenImageIssue(u) : u \in CodebaseImageUrls }

\* The ScreenshotAnalysisType objects the inference may yield.
Analyses ==
    { [hasIssues |-> issues # {}, issues |-> issues] : issues \in SUBSET AnalysisIssues }

InitScreenshotAnalysis ==
    /\ saScreenshot \in BOOLEAN
    /\ saReferenced \in SUBSET CodebaseImageUrls
    /\ saBroken \in SUBSET saReferenced
    /\ saResult = NoAnalysis
    /\ saPc = "start"

\* ScreenshotAnalysis.ts:323-325: no screenshot data, execute throws.
ScreenshotMissing ==
    /\ saPc = "start"
    /\ ~saScreenshot
    /\ saPc' = "threw"
    /\ UNCHANGED <<saScreenshot, saReferenced, saBroken, saResult>>
    /\ UNCHANGED notSaVars

\* ScreenshotAnalysis.ts:327-343: the one multimodal inference call.
ScreenshotInfer ==
    /\ saPc = "start"
    /\ saScreenshot
    /\ saPc' = "inferring"
    /\ UNCHANGED <<saScreenshot, saReferenced, saBroken, saResult>>
    /\ UNCHANGED notSaVars

\* ScreenshotAnalysis.ts:345-363: the analysis of the model is returned.
ScreenshotReturn ==
    /\ saPc = "inferring"
    /\ \E analysisResult \in Analyses : saResult' = analysisResult
    /\ saPc' = "returned"
    /\ UNCHANGED <<saScreenshot, saReferenced, saBroken>>
    /\ UNCHANGED notSaVars

\* ScreenshotAnalysis.ts:345-348, 364-366: no result or a failed inference.
ScreenshotThrow ==
    /\ saPc = "inferring"
    /\ saPc' = "threw"
    /\ UNCHANGED <<saScreenshot, saReferenced, saBroken, saResult>>
    /\ UNCHANGED notSaVars

NextScreenshotAnalysis ==
    \/ ScreenshotMissing
    \/ ScreenshotInfer
    \/ ScreenshotReturn
    \/ ScreenshotThrow

InitSpecScreenshotAnalysis ==
    InitScreenshotAnalysis /\ IdlePhase /\ IdlePhaseGeneration /\ IdleCodeReview /\ IdleCompaction /\ IdleConversation /\ IdleValidation /\ IdleAutoFix /\ IdleFastCodeFixer /\ IdleInterleaved /\ IdleCustomDomain

SpecScreenshotAnalysis == InitSpecScreenshotAnalysis /\ [][NextScreenshotAnalysis]_vars

\* C14: the report execute returns holds an issue for every image URL of the
\* codebase that fails validation, reported by the vision model or not.
C14_BrokenImagesReported ==
    saPc = "returned" =>
        \A url \in saBroken : BrokenImageIssue(url) \in saResult.issues

\* ------------------------------------------------------ image URL validator

\* A string is the sequence of its characters.

\* The string s holds the string pat at index i.
MatchesAt(s, i, pat) ==
    /\ i >= 1
    /\ i + Len(pat) - 1 <= Len(s)
    /\ \A k \in 1..Len(pat) : s[i + k - 1] = pat[k]

\* Index of the first character from index from on that satisfies Stop, or
\* Len(s) + 1.
FirstFrom(s, from, Stop(_)) ==
    IF \E i \in from..Len(s) : Stop(s[i])
    THEN CHOOSE i \in from..Len(s) : Stop(s[i]) /\ \A j \in from..(i - 1) : ~Stop(s[j])
    ELSE Len(s) + 1

DecimalDigits == <<"0", "1", "2", "3", "4", "5", "6", "7", "8", "9">>

IsDigit(ch) == \E d \in 1..10 : DecimalDigits[d] = ch

NotDigit(ch) == ~IsDigit(ch)

DigitValue(ch) == (CHOOSE d \in 1..10 : DecimalDigits[d] = ch) - 1

\* parseInt of a string of decimal digits: value[k] is the value of its first k
\* digits.
ParseInt(digits) ==
    LET value[k \in 0..Len(digits)] ==
            IF k = 0 THEN 0 ELSE 10 * value[k - 1] + DigitValue(digits[k])
    IN  value[Len(digits)]

\* `${n}` for a non-negative integer.
NumberToString(n) ==
    LET text[k \in 0..n] ==
            IF k < 10 THEN <<DecimalDigits[k + 1]>>
            ELSE text[k \div 10] \o <<DecimalDigits[(k % 10) + 1]>>
    IN  text[n]

UNSPLASH_HOST ==
    <<"h", "t", "t", "p", "s", ":", "/", "/", "i", "m", "a", "g", "e", "s",
    ".", "u", "n", "s", "p", "l", "a", "s", "h", ".", "c", "o", "m", "/">>

UNSPLASH_HOST_HTTP ==
    <<"h", "t", "t", "p", ":", "/", "/", "i", "m", "a", "g", "e", "s", ".",
    "u", "n", "s", "p", "l", "a", "s", "h", ".", "c", "o", "m", "/">>

PICSUM ==
    <<"h", "t", "t", "p", "s", ":", "/", "/", "p", "i", "c", "s", "u", "m",
    ".", "p", "h", "o", "t", "o", "s", "/">>

PHOTO == <<"p", "h", "o", "t", "o", "-">>

RANDOM == <<"?", "r", "a", "n", "d", "o", "m", "=">>

\* part_001:30-31  FALLBACK_IMAGE_SERVICES.picsum
Picsum(width, height, seed) ==
    PICSUM \o NumberToString(width) \o <<"/">> \o NumberToString(height)
    \o (IF seed # <<>> THEN RANDOM \o seed ELSE <<>>)

\* url.match(/[?&]name=(\d+)/): the digits captured, <<>> when nothing matches.
QueryDigits(url, name) ==
    LET starts == { i \in 1..Len(url) :
                      /\ url[i] \in {"?", "&"}
                      /\ MatchesAt(url, i + 1, <<name, "=">>)
                      /\ i + 3 <= Len(url)
                      /\ IsDigit(url[i + 3]) }
    IN  IF starts = {} THEN <<>>
        ELSE LET i == CHOOSE i \in starts : \A j \in starts : i <= j
             IN  SubSeq(url, i + 3, FirstFrom(url, i + 3, NotDigit) - 1)

\* part_001:39-47
ExtractDimensions(url) ==
    LET widthMatch == QueryDigits(url, "w")
        heightMatch == QueryDigits(url, "h")
    IN  [width |-> IF widthMatch # <<>> THEN ParseInt(widthMatch) ELSE 800,
         height |-> IF heightMatch # <<>> THEN ParseInt(heightMatch) ELSE 600]

IsQuestionMark(ch) == ch = "?"

\* url.match(/photo-([^?]+)/): the text captured, <<>> when nothing matches.
PhotoIdMatch(url) ==
    LET starts == { i \in 1..Len(url) :
                      /\ MatchesAt(url, i, PHOTO)
                      /\ i + Len(PHOTO) <= Len(url)
                      /\ url[i + Len(PHOTO)] # "?" }
    IN  IF starts = {} THEN <<>>
        ELSE LET i == CHOOSE i \in starts : \A j \in starts : i <= j
             IN  SubSeq(url, i + Len(PHOTO),
                        FirstFrom(url, i + Len(PHOTO), IsQuestionMark) - 1)

\* s.substring(0, n)
Prefix(s, n) == SubSeq(s, 1, IF Len(s) < n THEN Len(s) ELSE n)

\* part_001:52-62: random is what Math.random().toString(36).substring(2, 12)
\* yields when it is evaluated.
ExtractImageContext(url, random) ==
    LET photoIdMatch == PhotoIdMatch(url)
    IN  IF photoIdMatch # <<>> THEN Prefix(photoIdMatch, 10) ELSE random

\* part_001:109-121: the replacement built for a URL that is not valid.
AlternativeUrl(url, random) ==
    LET dimensions == ExtractDimensions(url)
        context == ExtractImageContext(url, random)
    IN  Picsum(dimensions.width, dimensions.height, context)

\* The replacement with width and height swapped.
ValidationResultSwapped(url, outcome, random) ==
    LET dimensions == ExtractDimensions(url)
    IN  [url |-> url,
         isValid |-> outcome.kind = "response" /\ outcome.status \in 200..299,
         statusCode |-> IF outcome.kind = "response" THEN outcome.status ELSE 0,
         error |-> IF outcome.kind = "response" THEN "" ELSE outcome.kind,
         alternativeUrl |->
            IF outcome.kind = "response" /\ outcome.status \in 200..299 THEN <<>>
            ELSE Picsum(dimensions.height, dimensions.width,
                        ExtractImageContext(url, random))]

\* part_001:68-123  validateImageUrl, given how its HEAD request ended: with a
\* response, with a network error, or aborted by the timeout.
ValidationResult(url, outcome, random) ==
    IF outcome.kind = "response"
    THEN LET isValid == outcome.status \in 200..299
         IN  [url |-> url, isValid |-> isValid, statusCode |-> outcome.status,
              error |-> "",
              alternativeUrl |-> IF ~isValid THEN AlternativeUrl(url, random) ELSE <<>>]
    ELSE [url |-> url, isValid |-> FALSE, statusCode |-> 0,
          error |-> outcome.kind,
          alternativeUrl |-> AlternativeUrl(url, random)]

\* --------------------------------------------------------- validateImageUrls

\* Longest list of URLs handed to validateImageUrls.
MaxUrls == 6

\* part_001:130  maxConcurrent: number = 5
MaxConcurrent == 5

\* The Unsplash URLs of the inputs, by their parts: the host, the path before
\* the photo id, the photo id, and the query parameters with the number each
\* one stands for; replacement is the URL the entry is to be replaced by
\* (up to the seed, for the entry without a photo id).
Param(name, digits, value) == [name |-> name, digits |-> digits, value |-> value]

UrlCatalog ==
    << [host |-> UNSPLASH_HOST, path |-> <<"r", "e", "s", "e", "r", "v", "e", "/", "p", "i", "c", ".", "j", "p", "g">>, photoId |-> <<>>,
        params |-> << Param("w", <<"3", "0", "0">>, 300) >>,
        replacement |-> <<"h", "t", "t", "p", "s", ":", "/", "/", "p", "i", "c", "s", "u", "m", ".", "p", "h", "o", "t", "o", "s", "/", "3", "0", "0", "/", "6", "0", "0", "?", "r", "a", "n", "d", "o", "m", "=">>],
       [host |-> UNSPLASH_HOST, path |-> <<>>, photoId |-> <<"1", "5", "4", "4", "3", "6", "7", "5", "6", "7", "-", "0", "f", "2", "f", "c", "b", "0", "0", "9", "e", "0", "b">>,
        params |-> << Param("w", <<"8", "0", "0">>, 800), Param("h", <<"6", "0", "0">>, 600) >>,
        replacement |-> <<"h", "t", "t", "p", "s", ":", "/", "/", "p", "i", "c", "s", "u", "m", ".", "p", "h", "o", "t", "o", "s", "/", "8", "0", "0", "/", "6", "0", "0", "?", "r", "a", "n", "d", "o", "m", "=", "1", "5", "4", "4", "3", "6", "7", "5", "6", "7">>],
       [host |-> UNSPLASH_HOST_HTTP, path |-> <<>>, photoId |-> <<"1", "5">>,
        params |-> << Param("q", <<"8", "0">>, 80) >>,
        replacement |-> <<"h", "t", "t", "p", "s", ":", "/", "/", "p", "i", "c", "s", "u", "m", ".", "p", "h", "o", "t", "o", "s", "/", "8", "0", "0", "/", "6", "0", "0", "?", "r", "a", "n", "d", "o", "m", "=", "1", "5">>],
       [host |-> UNSPLASH_HOST, path |-> <<>>, photoId |-> <<"a", "b", "c">>,
        params |-> << Param("h", <<"0", "4", "0", "0">>, 400), Param("w", <<"1", "9", "2", "0">>, 1920) >>,
        replacement |-> <<"h", "t", "t", "p", "s", ":", "/", "/", "p", "i", "c", "s", "u", "m", ".", "p", "h", "o", "t", "o", "s", "/", "1", "9", "2", "0", "/", "4", "0", "0", "?", "r", "a", "n", "d", "o", "m", "=", "a", "b", "c">>] >>

RECURSIVE QueryString(_, _)
\* ?name=digits&name=digits...
QueryString(params, k) ==
    IF k > Len(params) THEN <<>>
    ELSE <<IF k = 1 THEN "?" ELSE "&", params[k].name, "=">> \o params[k].digits
         \o QueryString(params, k + 1)

\* The URL an entry of the catalog stands for.
UrlOf(entry) ==
    entry.host \o entry.path
    \o (IF entry.photoId # <<>> THEN PHOTO \o entry.photoId ELSE <<>>)
    \o QueryString(entry.params, 1)

\* The k-th URL of an input list: the catalog, over and over.
UrlAt(k) == UrlOf(UrlCatalog[((k - 1) % Len(UrlCatalog)) + 1])

UrlList(n) == [k \in 1..n |-> UrlAt(k)]

\* How a HEAD request may end.
HeadOutcomes ==
    { [kind |-> "response", status |-> 200],
      [kind |-> "response", status |-> 404],
      [kind |-> "network error", status |-> 0] }

\* part_001:74  the request aborted by its timer
TimedOut == [kind |-> "timeout", status |-> 0]

\* What Math.random().toString(36).substring(2, 12) may yield.
RandomSeeds == { <<"k", "3", "j", "9", "x", "0", "q", "2", "z", "p">>, <<"a", "8", "1", "m", "f", "e", "0", "7", "w", "d">> }

\* part_001:68-123  validateImageUrl over the URLs of the catalog, by how the
\* HEAD request ended and what Math.random yielded.
ValidateImageUrl ==
    [url \in { UrlOf(UrlCatalog[i]) : i \in 1..Len(UrlCatalog) },
     outcome \in HeadOutcomes \cup {TimedOut},
     random \in RandomSeeds \cup { <<>> } |-> ValidationResult(url, outcome, random)]

NoResult ==
    [url |-> <<>>, isValid |-> FALSE, statusCode |-> 0, error |-> "", alternativeUrl |-> <<>>]

\* part_001:141-143  batchResults.forEach(result => results.set(result.url,
\* result)): a key set more than once holds the result set last.
MapSetAll(results, batchResults) ==
    LET Sets(url) == { k \in 1..Len(batchResults) : batchResults[k].url = url }
    IN  [url \in DOMAIN results \cup { batchResults[k].url : k \in 1..Len(batchResults) } |->
            IF Sets(url) = {} THEN results[url]
            ELSE batchResults[CHOOSE k \in Sets(url) : \A j \in Sets(url) : j <= k]]

CurrentBatch == (ivIndex \div MaxConcurrent) + 1

InFlight == { r \in 1..Len(ivRequests) : ivRequests[r].state = "in flight" }

RequestsOfBatch(batch) == { r \in 1..Len(ivRequests) : ivRequests[r].batch = batch }

InitValidation ==
    /\ \E n \in 0..MaxUrls : ivUrls = UrlList(n)
    /\ ivIndex = 0
    /\ ivRequests = <<>>
    /\ ivResults = <<>>
    /\ ivPc = "loop"

\* part_001:135-139: the next batch is sliced and every validateImageUrl of it
\* runs up to its fetch.
StartBatch ==
    /\ ivPc = "loop"
    /\ ivIndex < Len(ivUrls)
    /\ LET last == IF ivIndex + MaxConcurrent < Len(ivUrls)
                   THEN ivIndex + MaxConcurrent ELSE Len(ivUrls)
           batch == SubSeq(ivUrls, ivIndex + 1, last)
       IN  ivRequests' = ivRequests \o
               [k \in 1..Len(batch) |->
                   [url |-> batch[k], batch |-> CurrentBatch, state |-> "in flight",
                    outcome |-> "none", result |-> NoResult]]
    /\ ivPc' = "awaiting"
    /\ UNCHANGED <<ivUrls, ivIndex, ivResults>>
    /\ UNCHANGED notIvVars

\* part_001:60-61: Math.random is evaluated only for a URL without a photo id.
RandomOf(url) == IF PhotoIdMatch(url) = <<>> THEN RandomSeeds ELSE { <<>> }

Settle(r, outcome, random) ==
    ivRequests' = [ivRequests EXCEPT
                      ![r].state = "settled",
                      ![r].outcome = outcome.kind,
                      ![r].result = ValidateImageUrl[ivRequests[r].url, outcome, random]]

\* part_001:76-105, 106-122: the fetch of one request resolves or rejects.
RequestSettles ==
    /\ \E r \in InFlight, outcome \in HeadOutcomes :
          \E random \in RandomOf(ivRequests[r].url) : Settle(r, outcome, random)
    /\ UNCHANGED <<ivUrls, ivIndex, ivResults, ivPc>>
    /\ UNCHANGED notIvVars

\* The timer never fires.
TimerDisabled == FALSE

\* part_001:74  setTimeout(() => controller.abort(), timeout)
TimerArmed == TRUE

\* part_001:74, 106-122: the timer of one request fires and aborts its fetch.
RequestTimesOut ==
    /\ TimerArmed
    /\ \E r \in InFlight :
          \E random \in RandomOf(ivRequests[r].url) : Settle(r, TimedOut, random)
    /\ UNCHANGED <<ivUrls, ivIndex, ivResults, ivPc>>
    /\ UNCHANGED notIvVars

\* The join is over as soon as one request of the batch has settled.
BatchRaced(batch) ==
    \E r \in RequestsOfBatch(batch) : ivRequests[r].state = "settled"

\* part_001:137-139  await Promise.all(batch.map(...)): validateImageUrl never
\* rejects, so the join ends when every request of the batch has settled.
BatchJoined(batch) ==
    \A r \in RequestsOfBatch(batch) : ivRequests[r].state = "settled"

\* part_001:137-144: the join ends, the results are stored, the loop goes on.
FinishBatch ==
    /\ ivPc = "awaiting"
    /\ BatchJoined(CurrentBatch)
    /\ \E batchResults \in { [k \in 1..Cardinality(RequestsOfBatch(CurrentBatch)) |->
                                 ivRequests[ivIndex + k].result] } :
          ivResults' = MapSetAll(ivResults, batchResults)
    /\ ivIndex' = ivIndex + MaxConcurrent
    /\ ivPc' = "loop"
    /\ UNCHANGED <<ivUrls, ivRequests>>
    /\ UNCHANGED notIvVars

\* part_001:146  return results
ValidateReturn ==
    /\ ivPc = "loop"
    /\ ivIndex >= Len(ivUrls)
    /\ ivPc' = "done"
    /\ UNCHANGED <<ivUrls, ivIndex, ivRequests, ivResults>>
    /\ UNCHANGED notIvVars

NextValidation ==
    \/ StartBatch
    \/ RequestSettles
    \/ RequestTimesOut
    \/ FinishBatch
    \/ ValidateReturn

InitSpecValidation ==
    InitValidation /\ IdlePhase /\ IdlePhaseGeneration /\ IdleCodeReview /\ IdleCompaction /\ IdleConversation /\ IdleScreenshotAnalysis /\ IdleAutoFix /\ IdleFastCodeFixer /\ IdleInterleaved /\ IdleCustomDomain

SpecValidation == InitSpecValidation /\ [][NextValidation]_vars

\* The timers fire and the event loop runs what is ready; no host has to answer.
SpecValidationLive ==
    /\ InitSpecValidation
    /\ [][NextValidation]_vars
    /\ WF_vars(StartBatch)
    /\ WF_vars(RequestTimesOut)
    /\ WF_vars(FinishBatch)
    /\ WF_vars(ValidateReturn)

\* The entry of the catalog a URL was built from.
CatalogEntry(url) ==
    UrlCatalog[CHOOSE k \in 1..Len(UrlCatalog) : UrlOf(UrlCatalog[k]) = url]

Settled == { r \in 1..Len(ivRequests) : ivRequests[r].state = "settled" }

Answered2xx(r) ==
    ivRequests[r].outcome = "response" /\ ivRequests[r].result.statusCode \in 200..299

\* What validateImageUrl is to return for the request r.
ReplacementAsSpecified(r) ==
    LET result == ivRequests[r].result
        entry == CatalogEntry(ivRequests[r].url)
    IN  /\ result.url = ivRequests[r].url
        /\ Answered2xx(r) => result.isValid /\ result.alternativeUrl = <<>>
        /\ ~Answered2xx(r) =>
              /\ ~result.isValid
              /\ IF entry.photoId # <<>>
                 THEN result.alternativeUrl = entry.replacement
                 ELSE /\ MatchesAt(result.alternativeUrl, 1, entry.replacement)
                      /\ Len(result.alternativeUrl) > Len(entry.replacement)

\* C15 as stated: validateImageUrl always returns a result; for a URL that
\* answered non-2xx, failed or timed out it is isValid false with the
\* replacement https://picsum.photos/{w}/{h}?random={seed}, w and h the URL's
\* query values (800 and 600 when absent), the seed the first 10 characters of
\* the photo id, and the same broken URL always gets the same replacement; for
\* a 2xx answer it is isValid true without a replacement.
C15_SameReplacementForEveryUrl ==
    /\ \A r \in Settled : ReplacementAsSpecified(r)
    /\ \A r, q \in Settled :
          (ivRequests[r].url = ivRequests[q].url /\ ~Answered2xx(r) /\ ~Answered2xx(q))
              => ivRequests[r].result.alternativeUrl = ivRequests[q].result.alternativeUrl

\* C15, amended: as above, but the seed is the first 10 characters of what
\* follows "photo-" only for a URL that has such a part; for any other URL the
\* seed is drawn at random by each call, so only the URLs with a photo id are
\* sure to get the same replacement every time.
C15_ReplacementOfBrokenUrl ==
    /\ \A r \in Settled : ReplacementAsSpecified(r)
    /\ \A r, q \in Settled :
          (/\ ivRequests[r].url = ivRequests[q].url
           /\ CatalogEntry(ivRequests[r].url).photoId # <<>>
           /\ ~Answered2xx(r) /\ ~Answered2xx(q))
              => ivRequests[r].result.alternativeUrl = ivRequests[q].result.alternativeUrl

\* Scenario D answered 404 and got its replacement, the URL with h=0400 and
\* w=1920 timed out, and the URL without a photo id was validated twice.
C15_Witness ==
    /\ \E r \in Settled :
          /\ ivRequests[r].url = UrlOf(UrlCatalog[2])
          /\ ivRequests[r].result.statusCode = 404
          /\ ivRequests[r].result.alternativeUrl = UrlCatalog[2].replacement
    /\ \E r \in Settled :
          /\ ivRequests[r].url = UrlOf(UrlCatalog[4])
          /\ ivRequests[r].outcome = "timeout"
          /\ ivRequests[r].result.alternativeUrl = UrlCatalog[4].replacement
    /\ \E r, q \in Settled :
          /\ r # q
          /\ ivRequests[r].url = UrlOf(UrlCatalog[1])
          /\ ivRequests[q].url = UrlOf(UrlCatalog[1])
          /\ ~Answered2xx(r) /\ ~Answered2xx(q)

\* C17: at most 5 HEAD requests are in flight at any moment, and while a
\* request of a batch is in flight or settled every request of the batches
\* before it has settled.
C17_BoundedConcurrency ==
    /\ Cardinality(InFlight) <= 5
    /\ \A r, q \in 1..Len(ivRequests) :
          ivRequests[r].batch < ivRequests[q].batch => ivRequests[r].state = "settled"

\* The second batch is in flight after a first batch of 5 requests.
C17_Witness ==
    /\ Cardinality(RequestsOfBatch(1)) = 5
    /\ \E r \in InFlight : ivRequests[r].batch = 2

\* The distinct URLs of the input and the keys of the results.
InputUrls == { ivUrls[k] : k \in 1..Len(ivUrls) }

ResultUrls == DOMAIN ivResults

ValidationComplete ==
    /\ ivPc = "done"
    /\ ResultUrls = InputUrls
    /\ \A url \in ResultUrls : ivResults[url].url = url

\* C18: every validateImageUrls call eventually completes with one result per
\* distinct input URL, whether the hosts answer or not.
C18_ValidationCompletes == <>ValidationComplete

\* The call completed over two batches with a request ended by its timeout.
C18_Witness ==
    /\ ValidationComplete
    /\ \E r \in Settled : ivRequests[r].outcome = "timeout" /\ ivRequests[r].batch = 1
    /\ \E r \in Settled : ivRequests[r].batch = 2

\* --------------------------------------------------------- autoFixImageUrls

\* Most files handed to one autoFixImageUrls call.
MaxFiles == 2

UPPERCASE == <<"A", "B", "C", "D", "E", "F", "G", "H", "I", "J", "K", "L", "M", "N", "O", "P", "Q", "R", "S", "T", "U", "V", "W", "X", "Y", "Z">>

LOWERCASE == <<"a", "b", "c", "d", "e", "f", "g", "h", "i", "j", "k", "l", "m", "n", "o", "p", "q", "r", "s", "t", "u", "v", "w", "x", "y", "z">>

UppercaseLetters == { UPPERCASE[k] : k \in 1..26 }

\* The flag i of a regular expression: letters compare by their lower case.
Lower(ch) ==
    IF ch \in UppercaseLetters
    THEN LOWERCASE[CHOOSE k \in 1..26 : UPPERCASE[k] = ch]
    ELSE ch

MatchesAtIgnoreCase(s, i, pat) ==
    /\ i >= 1
    /\ i + Len(pat) - 1 <= Len(s)
    /\ \A k \in 1..Len(pat) : Lower(s[i + k - 1]) = pat[k]

HTTP == <<"h", "t", "t", "p">>

HTTPS == <<"h", "t", "t", "p", "s">>

UNSPLASH_AUTHORITY == <<":", "/", "/", "i", "m", "a", "g", "e", "s", ".", "u", "n", "s", "p", "l", "a", "s", "h", ".", "c", "o", "m", "/">>

\* [^\s"'<>)] of the URL patterns: the characters that end a URL.
IsUrlEnd(ch) == ch \in {" ", "\t", "\n", "\r", "\"", "'", "<", ">", ")"}

\* The pattern matches any URL of the scheme https.
AnyHttpsMatchEnd(content, i) ==
    IF MatchesAtIgnoreCase(content, i, HTTPS \o <<":", "/", "/">>)
    THEN LET body == i + Len(HTTPS) + 3
             stop == FirstFrom(content, body, IsUrlEnd)
         IN  IF stop > body THEN stop - 1 ELSE 0
    ELSE 0

\* part_001:162  /https?:\/\/images\.unsplash\.com\/[^\s"'<>)]+/gi tried at index
\* i: the index of the last character matched, 0 when there is no match.
UnsplashMatchEnd(content, i) ==
    LET scheme == IF MatchesAtIgnoreCase(content, i, HTTPS) THEN Len(HTTPS)
                  ELSE IF MatchesAtIgnoreCase(content, i, HTTP) THEN Len(HTTP)
                  ELSE 0
        body == i + scheme + Len(UNSPLASH_AUTHORITY)
        stop == FirstFrom(content, body, IsUrlEnd)
    IN  IF /\ scheme > 0
           /\ MatchesAtIgnoreCase(content, i + scheme, UNSPLASH_AUTHORITY)
           /\ stop > body
        THEN stop - 1
        ELSE 0

RECURSIVE MatchAll(_, _)
\* content.match(pattern) with the flag g: the matches from left to right, each
\* search starting after the match before.
MatchAll(content, i) ==
    LET starts == { k \in i..Len(content) : UnsplashMatchEnd(content, k) > 0 }
    IN  IF starts = {} THEN <<>>
        ELSE LET start == CHOOSE k \in starts : \A j \in starts : k <= j
                 end == UnsplashMatchEnd(content, start)
             IN  <<SubSeq(content, start, end)>> \o MatchAll(content, end + 1)

\* [...new Set(matches)]: the distinct matches in the order of their first
\* occurrence.
Distinct(matches) ==
    LET firsts == { k \in 1..Len(matches) : \A j \in 1..(k - 1) : matches[j] # matches[k] }
        Place(n) == CHOOSE k \in firsts : Cardinality({ j \in firsts : j < k }) = n - 1
    IN  [n \in 1..Cardinality(firsts) |-> matches[Place(n)]]

\* part_001:161-165
ExtractUnsplashUrls(content) == Distinct(MatchAll(content, 1))

RECURSIVE ReplaceAll(_, _, _, _)
\* part_001:218-220  fixedContent.replace(new RegExp(escapedOriginal, 'g'),
\* replacementUrl): every occurrence of original from index i on, left to right.
ReplaceAll(content, i, original, replacement) ==
    LET starts == { k \in i..Len(content) : MatchesAt(content, k, original) }
    IN  IF starts = {} THEN SubSeq(content, i, Len(content))
        ELSE LET start == CHOOSE k \in starts : \A j \in starts : k <= j
             IN  SubSeq(content, i, start - 1) \o replacement
                 \o ReplaceAll(content, start + Len(original), original, replacement)

RECURSIVE ApplyImageUrlFixesFrom(_, _, _)
ApplyImageUrlFixesFrom(content, fixes, k) ==
    IF k > Len(fixes) THEN content
    ELSE ApplyImageUrlFixesFrom(
             ReplaceAll(content, 1, fixes[k].originalUrl, fixes[k].replacementUrl),
             fixes, k + 1)

\* part_001:210-224
ApplyImageUrlFixes(content, fixes) == ApplyImageUrlFixesFrom(content, fixes, 1)

\* How the HEAD request of one URL ends and what Math.random yields for it.
RequestEndsOf(url) ==
    { [outcome |-> outcome, random |-> random] :
          outcome \in HeadOutcomes \cup {TimedOut}, random \in RandomOf(url) }

\* How the requests of a list of URLs end.
RequestEnds(urls) ==
    { ends \in [1..Len(urls) -> UNION { RequestEndsOf(urls[k]) : k \in 1..Len(urls) }] :
          \A k \in 1..Len(urls) : ends[k] \in RequestEndsOf(urls[k]) }

\* part_001:188-202: the fix of one validation result, <<>> when there is none.
FixesOfResult(result) ==
    IF ~result.isValid /\ result.alternativeUrl # <<>>
    THEN << [originalUrl |-> result.url, replacementUrl |-> result.alternativeUrl] >>
    ELSE <<>>

RECURSIVE FixesFrom(_, _, _)
FixesFrom(unsplashUrls, ends, k) ==
    IF k > Len(unsplashUrls) THEN <<>>
    ELSE FixesOfResult(ValidationResult(unsplashUrls[k], ends[k].outcome, ends[k].random))
         \o FixesFrom(unsplashUrls, ends, k + 1)

\* part_001:170-205  generateImageUrlFixes, given the Unsplash URLs line 176
\* extracts from the content and how the request of each one ends.
GenerateImageUrlFixes(unsplashUrls, ends) == FixesFrom(unsplashUrls, ends, 1)

\* s.endsWith(suffix)
EndsWith(s, suffix) ==
    Len(s) >= Len(suffix) /\ SubSeq(s, Len(s) - Len(suffix) + 1, Len(s)) = suffix

\* PhaseGeneration.ts:567-571
IsNonCodeFile(file) ==
    \/ EndsWith(file.filePath, <<".", "j", "s", "o", "n">>)
    \/ EndsWith(file.filePath, <<".", "m", "d">>)
    \/ EndsWith(file.filePath, <<".", "c", "s", "s">>)

\* PhaseGeneration.ts:565-614: one pass of the loop over a file, unsplashUrls
\* the URLs extracted from it (none for a file that is not code) and ends
\* telling how the request of each one ends: the file pushed to fixedFiles, the
\* fixes applied to it and the requests issued for it.
AutoFixFile(file, unsplashUrls, ends) ==
    LET fileFixes == GenerateImageUrlFixes(unsplashUrls, ends)
    IN  IF IsNonCodeFile(file) \/ Len(unsplashUrls) = 0
        THEN [file |-> file, fixes |-> <<>>, requests |-> 0]
        ELSE IF Len(fileFixes) = 0
        THEN [file |-> file, fixes |-> <<>>, requests |-> Len(unsplashUrls)]
        ELSE [file |-> [file EXCEPT !.fileContents =
                                        ApplyImageUrlFixes(file.fileContents, fileFixes)],
              fixes |-> fileFixes, requests |-> Len(unsplashUrls)]

\* PhaseGeneration.ts:567-577: the URLs one pass over the file extracts.
UrlsToValidate(file) ==
    IF IsNonCodeFile(file) THEN <<>> ELSE ExtractUnsplashUrls(file.fileContents)

\* <img src="url" />
Img(url) == <<"<", "i", "m", "g", " ", "s", "r", "c", "=", "\"">> \o url \o <<"\"", " ", "/", ">", "\n">>

\* background: url(url);
CssUrl(url) == <<"b", "a", "c", "k", "g", "r", "o", "u", "n", "d", ":", " ", "u", "r", "l", "(">> \o url \o <<")", ";", "\n">>

\* The last URL of the catalog as a browser may spell its scheme and host.
UpperCaseHostUrl == <<"H", "T", "T", "P", "S", ":", "/", "/", "I", "m", "a", "g", "e", "s", ".", "U", "n", "s", "p", "l", "a", "s", "h", ".", "c", "o", "m", "/", "p", "h", "o", "t", "o", "-", "a", "b", "c", "?", "h", "=", "0", "4", "0", "0", "&", "w", "=", "1", "9", "2", "0">>

File(filePath, fileContents) == [filePath |-> filePath, fileContents |-> fileContents]

\* The files an input is made of: Unsplash URLs with their dimensions, one of
\* them in upper case inside url(...); a URL without a photo id used twice; a
\* file that references picsum only; a file that is not code.
FileChoices ==
    { File(<<"s", "r", "c", "/", "A", "p", "p", ".", "t", "s", "x">>, Img(UrlOf(UrlCatalog[2])) \o CssUrl(UpperCaseHostUrl)),
      File(<<"s", "r", "c", "/", "H", "e", "r", "o", ".", "t", "s", "x">>, Img(UrlOf(UrlCatalog[1])) \o Img(UrlOf(UrlCatalog[1]))),
      File(<<"s", "r", "c", "/", "A", "b", "o", "u", "t", ".", "t", "s", "x">>, Img(UrlCatalog[2].replacement)),
      File(<<"R", "E", "A", "D", "M", "E", ".", "m", "d">>, Img(UrlOf(UrlCatalog[2]))) }

FileLists == UNION { [1..n -> FileChoices] : n \in 1..MaxFiles }

InitAutoFix ==
    /\ afFiles \in FileLists
    /\ afIndex = 0
    /\ afFixedFiles = <<>>
    /\ afAllFixes = <<>>
    /\ afFilesFixed = 0
    /\ afUrlsReplaced = 0
    /\ afRequests = 0
    /\ afRun = 1
    /\ afFirstReplaced = 0
    /\ afPc = "loop"

\* PhaseGeneration.ts:572, 581, 592, 605-613: what one pass of the loop leaves
\* behind.
AutoFixPass(pass) ==
    /\ afFixedFiles' = Append(afFixedFiles, pass.file)
    /\ afAllFixes' = afAllFixes \o pass.fixes
    /\ afFilesFixed' = afFilesFixed + (IF Len(pass.fixes) > 0 THEN 1 ELSE 0)
    /\ afUrlsReplaced' = afUrlsReplaced + Len(pass.fixes)
    /\ afRequests' = afRequests + pass.requests
    /\ afIndex' = afIndex + 1
    /\ UNCHANGED <<afFiles, afRun, afFirstReplaced, afPc>>
    /\ UNCHANGED notAfVars

\* PhaseGeneration.ts:567-583: a file that is not code or holds no Unsplash URL
\* is pushed as it is.
AutoFixSkipsFile ==
    /\ afPc = "loop"
    /\ afIndex < Len(afFiles)
    /\ Len(UrlsToValidate(afFiles[afIndex + 1])) = 0
    /\ \E pass \in { AutoFixFile(afFiles[afIndex + 1], <<>>, <<>>) } : AutoFixPass(pass)

\* PhaseGeneration.ts:588-594: every Unsplash URL of the file is valid.
AutoFixKeepsFile ==
    /\ afPc = "loop"
    /\ afIndex < Len(afFiles)
    /\ \E unsplashUrls \in { UrlsToValidate(afFiles[afIndex + 1]) } :
          /\ Len(unsplashUrls) > 0
          /\ \E ends \in RequestEnds(unsplashUrls) :
                \E pass \in { AutoFixFile(afFiles[afIndex + 1], unsplashUrls, ends) } :
                    Len(pass.fixes) = 0 /\ AutoFixPass(pass)

\* PhaseGeneration.ts:588-613: some Unsplash URL of the file is broken.
AutoFixFixesFile ==
    /\ afPc = "loop"
    /\ afIndex < Len(afFiles)
    /\ \E unsplashUrls \in { UrlsToValidate(afFiles[afIndex + 1]) } :
          /\ Len(unsplashUrls) > 0
          /\ \E ends \in RequestEnds(unsplashUrls) :
                \E pass \in { AutoFixFile(afFiles[afIndex + 1], unsplashUrls, ends) } :
                    Len(pass.fixes) > 0 /\ AutoFixPass(pass)

\* PhaseGeneration.ts:616-630
AutoFixReturn ==
    /\ afPc = "loop"
    /\ afIndex = Len(afFiles)
    /\ afPc' = "returned"
    /\ afFirstReplaced' = IF afRun = 1 THEN afUrlsReplaced ELSE afFirstReplaced
    /\ UNCHANGED <<afFiles, afIndex, afFixedFiles, afAllFixes, afFilesFixed,
                   afUrlsReplaced, afRequests, afRun>>
    /\ UNCHANGED notAfVars

\* autoFixImageUrls is applied to the files it returned.
AutoFixAgain ==
    /\ afPc = "returned"
    /\ afRun = 1
    /\ afFiles' = afFixedFiles
    /\ afIndex' = 0
    /\ afFixedFiles' = <<>>
    /\ afAllFixes' = <<>>
    /\ afFilesFixed' = 0
    /\ afUrlsReplaced' = 0
    /\ afRequests' = 0
    /\ afRun' = 2
    /\ afPc' = "loop"
    /\ UNCHANGED afFirstReplaced
    /\ UNCHANGED notAfVars

NextAutoFix ==
    \/ AutoFixSkipsFile
    \/ AutoFixKeepsFile
    \/ AutoFixFixesFile
    \/ AutoFixReturn
    \/ AutoFixAgain

InitSpecAutoFix ==
    InitAutoFix /\ IdlePhase /\ IdlePhaseGeneration /\ IdleCodeReview /\ IdleCompaction /\ IdleConversation /\ IdleScreenshotAnalysis /\ IdleValidation /\ IdleFastCodeFixer /\ IdleInterleaved /\ IdleCustomDomain

SpecAutoFix == InitSpecAutoFix /\ [][NextAutoFix]_vars

PICSUM_AUTHORITY == <<":", "/", "/", "p", "i", "c", "s", "u", "m", ".", "p", "h", "o", "t", "o", "s", "/">>

\* Every URL of the content is an https URL of picsum.photos.
ReferencesOnlyPicsum(content) ==
    \A i \in 1..Len(content) :
        MatchesAt(content, i, <<":", "/", "/">>) =>
            /\ MatchesAt(content, i - Len(HTTPS), HTTPS)
            /\ MatchesAt(content, i, PICSUM_AUTHORITY)

PicsumOnlyInput == \A k \in 1..Len(afFiles) : ReferencesOnlyPicsum(afFiles[k].fileContents)

\* C16: autoFixImageUrls applied to files that reference only picsum.photos
\* URLs reports urlsReplaced 0 and filesFixed 0, issues no validation request
\* and returns every file with its contents unchanged.
C16_PicsumOnlyFilesUnchanged ==
    (afPc = "returned" /\ PicsumOnlyInput) =>
        /\ afUrlsReplaced = 0
        /\ afFilesFixed = 0
        /\ afAllFixes = <<>>
        /\ afRequests = 0
        /\ afFixedFiles = afFiles

\* The second call returned, on files whose Unsplash URLs the first call had
\* all replaced by picsum URLs.
C16_Witness ==
    /\ afPc = "returned"
    /\ afRun = 2
    /\ afFirstReplaced >= 2
    /\ PicsumOnlyInput
    /\ \E k \in 1..Len(afFiles) :
          \E i \in 1..Len(afFiles[k].fileContents) :
              MatchesAt(afFiles[k].fileContents, i, UrlCatalog[2].replacement)

\* ----------------------------------------------------------- FastCodeFixer

\* An issue reported against a file.
IssueOf(file) == [filePath |-> file.filePath, message |-> "runtime error"]

\* The lists of issues an input may hold for its files: for every file one
\* issue or none.
IssueLists(files) ==
    { SelectSeq([k \in 1..Len(files) |-> [issue |-> IssueOf(files[k]), reported |-> picked[k]]],
                LAMBDA entry : entry.reported) :
          picked \in [1..Len(files) -> BOOLEAN] }

\* FastCodeFixer.ts:265-276  userPromptFormatter: the issues as JSON, or the
\* request for a general scan when there is none, and the serialized codebase.
UserPromptFormatter(issues, files) ==
    [generalScan |-> Len(issues) = 0, issues |-> issues, codebase |-> files]

\* A file as the model rewrote it.
Rewritten(file) == [file EXCEPT !.fileContents = @ \o <<"/", "/", " ", "f", "i", "x", "e", "d", "\n">>]

\* What the model may answer to a prompt, as the files its answer holds: of
\* every file of the codebase nothing, the file as it is, or the file rewritten.
FixerResponses(codebase) ==
    { SelectSeq([k \in 1..Len(codebase) |->
                    [file |-> IF emitted[k] = "rewritten" THEN Rewritten(codebase[k])
                              ELSE codebase[k],
                     emitted |-> emitted[k] # "absent"]],
                LAMBDA entry : entry.emitted) :
          emitted \in [1..Len(codebase) -> {"absent", "as it is", "rewritten"}] }

\* scof.ts  SCOFFormat.deserialize: the files the answer holds.
DeserializeFiles(answer) == [k \in 1..Len(answer) |-> answer[k].file]

InitFastCodeFixer ==
    /\ fcAllFiles \in FileLists
    /\ fcIssues \in IssueLists(fcAllFiles)
    /\ fcPrompt = NoFixerPrompt
    /\ fcResult = <<>>
    /\ fcPc = "start"

\* FastCodeFixer.ts:290  autoFixImageUrls(allFiles) is called.
FastFixStartsPrepass ==
    /\ fcPc = "start"
    /\ afFiles' = fcAllFiles
    /\ afIndex' = 0
    /\ afFixedFiles' = <<>>
    /\ afAllFixes' = <<>>
    /\ afFilesFixed' = 0
    /\ afUrlsReplaced' = 0
    /\ afRequests' = 0
    /\ afRun' = 1
    /\ afFirstReplaced' = 0
    /\ afPc' = "loop"
    /\ fcPc' = "prepass"
    /\ UNCHANGED <<fcIssues, fcAllFiles, fcPrompt, fcResult>>
    /\ UNCHANGED notAfFcVars

\* FastCodeFixer.ts:290-313: the pre-pass has returned; the prompt is built
\* from the issues and fixedFiles and the inference is started.
FastFixInfer ==
    /\ fcPc = "prepass"
    /\ afPc = "returned"
    /\ fcPrompt' = UserPromptFormatter(fcIssues, afFixedFiles)
    /\ fcPc' = "inferring"
    /\ UNCHANGED <<fcIssues, fcAllFiles, fcResult>>
    /\ UNCHANGED notFcVars

\* FastCodeFixer.ts:308-319: the inference resolves and the deserialized files
\* are returned.
FastFixReturn ==
    /\ fcPc = "inferring"
    /\ \E answer \in FixerResponses(fcPrompt.codebase) :
          fcResult' = DeserializeFiles(answer)
    /\ fcPc' = "returned"
    /\ UNCHANGED <<fcIssues, fcAllFiles, fcPrompt>>
    /\ UNCHANGED notFcVars

\* FastCodeFixer.ts:308-313: the inference rejects and so does execute.
FastFixThrow ==
    /\ fcPc = "inferring"
    /\ fcPc' = "threw"
    /\ UNCHANGED <<fcIssues, fcAllFiles, fcPrompt, fcResult>>
    /\ UNCHANGED notFcVars

NextFastCodeFixer ==
    \/ FastFixStartsPrepass
    \/ AutoFixSkipsFile
    \/ AutoFixKeepsFile
    \/ AutoFixFixesFile
    \/ AutoFixReturn
    \/ FastFixInfer
    \/ FastFixReturn
    \/ FastFixThrow

InitSpecFastCodeFixer ==
    InitFastCodeFixer /\ IdlePhase /\ IdlePhaseGeneration /\ IdleCodeReview /\ IdleCompaction /\ IdleConversation /\ IdleScreenshotAnalysis /\ IdleValidation /\ IdleAutoFix /\ IdleInterleaved /\ IdleCustomDomain

SpecFastCodeFixer == InitSpecFastCodeFixer /\ [][NextFastCodeFixer]_vars

\* The paths against which an issue was reported.
ReportedPaths == { fcIssues[k].filePath : k \in 1..Len(fcIssues) }

\* C19: every file FastCodeFixer.execute returns is a file against which an
\* issue was reported in the inputs, and with an empty list of issues no file
\* is returned.
C19_OnlyReportedFilesReturned ==
    fcPc = "returned" =>
        \A k \in 1..Len(fcResult) : fcResult[k].filePath \in ReportedPaths

\* ---------------------------------- UserConversationProcessor.execute: the log

IsPrefix(prefix, messages) ==
    /\ Len(prefix) <= Len(messages)
    /\ SubSeq(messages, 1, Len(prefix)) = prefix

\* C22: the history execute returns, on the success path and on the fallback
\* path, starts with the caller's pastMessages, unchanged and in their order,
\* followed by the new messages; and no step of execute, the compactifyContext
\* call included, changes the pastMessages list or a message in it.
C22_LogAppendOnly ==
    /\ [](ucPc = "returned" =>
             /\ IsPrefix(ucPast, ucOutcome.messages)
             /\ Len(ucOutcome.messages) > Len(ucPast))
    /\ [][ucPast' = ucPast]_vars

\* A history at the compaction threshold was compacted for the inference call
\* and execute returned on the success path after a tool call.
C22_Witness ==
    /\ ucPc = "returned"
    /\ ucError = "none"
    /\ Len(ucPast) = COMPACTION_THRESHOLD
    /\ Len(ucSent) < Len(ucPast)
    /\ Len(ucTools) >= 1
    /\ IsPrefix(ucPast, ucOutcome.messages)

\* ------------------------------ UserConversationProcessor: a run of execute calls

\* Length of the history the run of calls starts from: what the calls before
\* it returned.
LongHistory == 246

\* Longest history handed on to a further call.
MaxLog == 250

InitConversationLog ==
    /\ ucPast = MakeHistory(LongHistory)
    /\ ucImages \in 0..1
    /\ ucMessages = <<>>
    /\ ucSent = <<>>
    /\ ucIds = 0
    /\ ucExtracted = <<>>
    /\ ucCallbacks = <<>>
    /\ ucTools = <<>>
    /\ ucError = "none"
    /\ ucOutcome = NoConversationOutcome
    /\ ucPc = "start"

\* The caller hands the messages execute returned to the next execute call as
\* its pastMessages.
ConversationNextCall ==
    /\ ucPc = "returned"
    /\ Len(ucOutcome.messages) <= MaxLog
    /\ ucPast' = ucOutcome.messages
    /\ ucImages' \in 0..1
    /\ ucMessages' = <<>>
    /\ ucSent' = <<>>
    /\ ucIds' = 0
    /\ ucExtracted' = <<>>
    /\ ucCallbacks' = <<>>
    /\ ucTools' = <<>>
    /\ ucError' = "none"
    /\ ucOutcome' = NoConversationOutcome
    /\ ucPc' = "start"
    /\ UNCHANGED notUcVars

NextConversationLog ==
    \/ NextConversation
    \/ ConversationNextCall

InitSpecConversationLog ==
    InitConversationLog /\ IdlePhase /\ IdlePhaseGeneration /\ IdleCodeReview /\ IdleCompaction /\ IdleScreenshotAnalysis /\ IdleValidation /\ IdleAutoFix /\ IdleFastCodeFixer /\ IdleInterleaved /\ IdleCustomDomain

SpecConversationLog == InitSpecConversationLog /\ [][NextConversationLog]_vars

\* The history messages of the inference call: what compactifyContext
\* returned, without the user message execute appends to it.
SentHistory == SubSeq(ucSent, 1, Len(ucSent) - 1)

\* C21: over a run of execute calls, each one given the messages the call
\* before it returned, the history sent to the inference call after compaction
\* never holds more than MAX_LLM_MESSAGES messages.
C21_SentHistoryWithinBudget ==
    ucPc \in {"inferring", "returned", "threw"} /\ ucSent # <<>> =>
        Len(SentHistory) <= MAX_LLM_MESSAGES

\* ------------------------------------------- GenerationContext.allFiles

\* The operations that are handed the files of the context: one
\* PhaseImplementation.execute call, or one FastCodeFixer.execute call with
\* its image-URL pre-pass.
InitSpecOperations ==
    \/ Init
    \/ InitSpecFastCodeFixer

NextOperations ==
    \/ NextPhase
    \/ NextFastCodeFixer

SpecOperations == InitSpecOperations /\ [][NextOperations]_vars

ChangedByPrepass ==
    { k \in 1..Len(afFixedFiles) :
          afFixedFiles[k].fileContents # fcAllFiles[k].fileContents }

\* C28: every file whose contents the image-URL pre-pass changed is in the
\* list FastCodeFixer.execute returns, with the substituted contents, whether
\* or not the model's answer holds that file.
C28_PrepassFixesReturned ==
    fcPc = "returned" =>
        \A k \in ChangedByPrepass :
            \E j \in 1..Len(fcResult) :
                /\ fcResult[j].filePath = afFixedFiles[k].filePath
                /\ fcResult[j].fileContents = afFixedFiles[k].fileContents

\* --------------------------------------------------- CustomDomainController

\* Requests received in one run.
MaxRequests == 2

NULL == "NULL"

AppIds == {"app1", "app2"}

UserIds == {"alice", "bob"}

\* Hostnames of request bodies: one that isValidHostname accepts, one it
\* rejects.
ValidHostnames == {"shop.example.com"}

Hostnames == ValidHostnames \cup {"not a hostname"}

\* customDomainService.ts:259-263
IsValidHostname(hostname) == hostname \in ValidHostnames

\* One row of the apps table (0004_add_custom_domains.sql:5-8).
AppRow(user, domain, hostnameId, status, errors) ==
    [user_id |-> user, custom_domain |-> domain, custom_hostname_id |-> hostnameId,
     custom_domain_status |-> status, custom_domain_verification_errors |-> errors]

NoDomainRow(user) == AppRow(user, NULL, NULL, NULL, NULL)

\* The requests a client may send: the operation, the authenticated user, the
\* appId path parameter ("" when missing) and, for an add, the hostname.
RequestChoices ==
    [op : {"add"}, user : UserIds, appId : AppIds \cup {""}, hostname : Hostnames]
    \cup [op : {"remove"}, user : UserIds, appId : AppIds \cup {""}, hostname : {""}]

NoResponse == [status |-> 0, message |-> ""]

ErrorResponse(message, status) == [status |-> status, message |-> message]

SuccessResponse == [status |-> 200, message |-> "success"]

\* A request as received: app is the row its query returned, hostnameId the
\* id Cloudflare gave or the row held, deleted what deleteCustomDomain
\* returned.
NewRequest(choice) ==
    [op |-> choice.op, user |-> choice.user, appId |-> choice.appId,
     hostname |-> choice.hostname, pc |-> "start", hostnameId |-> NULL,
     configured |-> FALSE, deleted |-> FALSE, response |-> NoResponse]

\* app1 belongs to alice, app2 to bob; app2 may have a domain already.
InitCustomDomain ==
    /\ cdApps \in { [a \in AppIds |-> NoDomainRow(IF a = "app1" THEN "alice" ELSE "bob")],
                    [a \in AppIds |->
                        IF a = "app1" THEN NoDomainRow("alice")
                        ELSE AppRow("bob", "blog.example.org", <<"cf", 0>>, "active", "[]")] }
    /\ cdRequests = <<>>

\* A request arrives.
RequestArrives ==
    /\ Len(cdRequests) < MaxRequests
    /\ \E choice \in RequestChoices : cdRequests' = Append(cdRequests, NewRequest(choice))
    /\ UNCHANGED cdApps
    /\ UNCHANGED notCdVars

Respond(r, answer) ==
    cdRequests' = [cdRequests EXCEPT ![r].pc = "done", ![r].response = answer]

Advance(r, to) == cdRequests' = [cdRequests EXCEPT ![r].pc = to]

\* SELECT ... FROM apps WHERE id = ? AND user_id = ?
OwnedApp(appId, user) == appId \in DOMAIN cdApps /\ cdApps[appId].user_id = user

\* controller.ts:50-82: the app id, the body, the hostname, then the
\* ownership query.
AddVerifiesOwnership(r) ==
    /\ cdRequests[r].op = "add" /\ cdRequests[r].pc = "start"
    /\ IF cdRequests[r].appId = ""
       THEN Respond(r, ErrorResponse("App ID is required", 400))
       ELSE IF ~IsValidHostname(cdRequests[r].hostname)
       THEN Respond(r, ErrorResponse("Invalid hostname format", 400))
       ELSE IF ~OwnedApp(cdRequests[r].appId, cdRequests[r].user)
       THEN Respond(r, ErrorResponse("App not found or you do not have permission", 404))
       ELSE Advance(r, "owned")
    /\ UNCHANGED cdApps
    /\ UNCHANGED notCdVars

\* controller.ts:84-93
\* SELECT custom_domain FROM apps WHERE id = ? AND custom_domain IS NOT NULL
AddChecksExisting(r) ==
    /\ cdRequests[r].op = "add" /\ cdRequests[r].pc = "owned"
    /\ IF cdApps[cdRequests[r].appId].custom_domain # NULL
       THEN Respond(r, ErrorResponse("This app already has a custom domain", 400))
       ELSE Advance(r, "no existing")
    /\ UNCHANGED cdApps
    /\ UNCHANGED notCdVars

\* controller.ts:95-104  SELECT id FROM apps WHERE custom_domain = ?
AddChecksDuplicate(r) ==
    /\ cdRequests[r].op = "add" /\ cdRequests[r].pc = "no existing"
    /\ IF \E a \in DOMAIN cdApps : cdApps[a].custom_domain = cdRequests[r].hostname
       THEN Respond(r, ErrorResponse("This domain is already in use by another app", 400))
       ELSE Advance(r, "no duplicate")
    /\ UNCHANGED cdApps
    /\ UNCHANGED notCdVars

\* controller.ts:106-124, customDomainService.ts:44-115: the answer of the
\* Cloudflare API decides; on success it carries the id of the new hostname.
AddCreatesAtCloudflare(r) ==
    /\ cdRequests[r].op = "add" /\ cdRequests[r].pc = "no duplicate"
    /\ \E success \in BOOLEAN :
          IF success
          THEN cdRequests' = [cdRequests EXCEPT ![r].pc = "created",
                                                ![r].hostnameId = <<"cf", r>>]
          ELSE Respond(r, ErrorResponse("Failed to create custom domain", 500))
    /\ UNCHANGED cdApps
    /\ UNCHANGED notCdVars

\* controller.ts:126-166: UPDATE apps SET custom_domain = ?, ... WHERE id = ?
AddUpdatesDatabase(r) ==
    /\ cdRequests[r].op = "add" /\ cdRequests[r].pc = "created"
    /\ cdApps' = [cdApps EXCEPT
                    ![cdRequests[r].appId].custom_domain = cdRequests[r].hostname,
                    ![cdRequests[r].appId].custom_hostname_id = cdRequests[r].hostnameId,
                    ![cdRequests[r].appId].custom_domain_status = "pending",
                    ![cdRequests[r].appId].custom_domain_verification_errors = "[]"]
    /\ Respond(r, SuccessResponse)
    /\ UNCHANGED notCdVars

\* controller.ts:271-293
\* SELECT custom_hostname_id FROM apps WHERE id = ? AND user_id = ?
RemoveReadsApp(r) ==
    /\ cdRequests[r].op = "remove" /\ cdRequests[r].pc = "start"
    /\ IF cdRequests[r].appId = ""
       THEN Respond(r, ErrorResponse("App ID is required", 400))
       ELSE IF ~OwnedApp(cdRequests[r].appId, cdRequests[r].user)
       THEN Respond(r, ErrorResponse("App not found or you do not have permission", 404))
       ELSE IF cdApps[cdRequests[r].appId].custom_hostname_id = NULL
       THEN Respond(r, ErrorResponse("No custom domain configured for this app", 404))
       ELSE cdRequests' = [cdRequests EXCEPT
                              ![r].pc = "read",
                              ![r].configured = TRUE,
                              ![r].hostnameId =
                                  cdApps[cdRequests[r].appId].custom_hostname_id]
    /\ UNCHANGED cdApps
    /\ UNCHANGED notCdVars

\* controller.ts:295-299, customDomainService.ts:172-197: deleteCustomDomain
\* returns whether Cloudflare deleted the hostname, and never throws.
RemoveDeletesAtCloudflare(r) ==
    /\ cdRequests[r].op = "remove" /\ cdRequests[r].pc = "read"
    /\ \E deleted \in BOOLEAN :
          cdRequests' = [cdRequests EXCEPT ![r].pc = "deleted", ![r].deleted = deleted]
    /\ UNCHANGED cdApps
    /\ UNCHANGED notCdVars

\* The database is updated only when Cloudflare deleted the hostname.
UpdatesIfDeleted(deleted) == deleted

\* controller.ts:301-302: Update database regardless of Cloudflare result
UpdatesAfterDelete(deleted) == TRUE

\* controller.ts:303-321: UPDATE apps SET custom_domain = NULL, ... WHERE id = ?
RemoveUpdatesDatabase(r) ==
    /\ cdRequests[r].op = "remove" /\ cdRequests[r].pc = "deleted"
    /\ IF UpdatesAfterDelete(cdRequests[r].deleted)
       THEN /\ cdApps' = [cdApps EXCEPT
                            ![cdRequests[r].appId].custom_domain = NULL,
                            ![cdRequests[r].appId].custom_hostname_id = NULL,
                            ![cdRequests[r].appId].custom_domain_status = NULL,
                            ![cdRequests[r].appId].custom_domain_verification_errors = NULL]
            /\ Respond(r, SuccessResponse)
       ELSE /\ UNCHANGED cdApps
            /\ Respond(r, ErrorResponse("Failed to remove custom domain", 500))
    /\ UNCHANGED notCdVars

NextCustomDomain ==
    \/ RequestArrives
    \/ \E r \in 1..Len(cdRequests) : AddVerifiesOwnership(r)
    \/ \E r \in 1..Len(cdRequests) : AddChecksExisting(r)
    \/ \E r \in 1..Len(cdRequests) : AddChecksDuplicate(r)
    \/ \E r \in 1..Len(cdRequests) : AddCreatesAtCloudflare(r)
    \/ \E r \in 1..Len(cdRequests) : AddUpdatesDatabase(r)
    \/ \E r \in 1..Len(cdRequests) : RemoveReadsApp(r)
    \/ \E r \in 1..Len(cdRequests) : RemoveDeletesAtCloudflare(r)
    \/ \E r \in 1..Len(cdRequests) : RemoveUpdatesDatabase(r)

InitSpecCustomDomain ==
    InitCustomDomain /\ IdlePhase /\ IdlePhaseGeneration /\ IdleCodeReview /\ IdleCompaction /\ IdleConversation /\ IdleScreenshotAnalysis /\ IdleValidation /\ IdleAutoFix /\ IdleFastCodeFixer /\ IdleInterleaved

SpecCustomDomain == InitSpecCustomDomain /\ [][NextCustomDomain]_vars

\* C29: however addCustomDomain requests interleave, no two apps of the
\* database hold the same custom_domain value.
C29_CustomDomainUnique ==
    \A a, b \in DOMAIN cdApps :
        (a # b /\ cdApps[a].custom_domain # NULL) =>
            cdApps[a].custom_domain # cdApps[b].custom_domain

\* The four custom-domain columns of the app's row are NULL.
DomainCleared(row) ==
    /\ row.custom_domain = NULL
    /\ row.custom_hostname_id = NULL
    /\ row.custom_domain_status = NULL
    /\ row.custom_domain_verification_errors = NULL

\* The request is by the owner of an app whose row holds a custom hostname.
ByOwnerOfConfigured(request) ==
    /\ OwnedApp(request.appId, request.user)
    /\ cdApps[request.appId].custom_hostname_id # NULL

\* The step answers remove request r.
AnswersRemove(r) ==
    /\ cdRequests[r].op = "remove"
    /\ cdRequests[r].pc # "done"
    /\ cdRequests'[r].pc = "done"

====
